---- MODULE Spec2Model ----
(***************************************************************************)
(* The retry-capable workflow execution engine of agent-link               *)
(* (src/src/app/store/workflowStore.ts, lines 1-242): the zustand store,   *)
(* executeAgent with its retry recursion, and the callers of the store in  *)
(* src/src/app/page.tsx.                                                   *)
(*                                                                         *)
(* JavaScript runs one task at a time, so an action is the code between    *)
(* two suspension points (await fetch / await sleep) of one startWorkflow  *)
(* invocation, or one synchronous handler.  Indexes are the code's         *)
(* (0-based); results is a sequence, so results[k+1] is the code's         *)
(* results[k].  Wall-clock fields (timestamp, executionTime) are left out. *)
(***************************************************************************)
EXTENDS Integers, Sequences, FiniteSets, TLC

\* ------------------------------------------------------------------ bounds
NumAgents == 3
MaxCalls == 3
MaxEdits == 1
MaxStops == 1
MaxFaultyTurns == 1

\* -------------------------------------------------------- program constants
MAX_RETRIES == 3

Null == "<null>"

AgentIds == 0 .. (NumAgents - 1)
CallIds == 1 .. MaxCalls
ProviderIds == {"p1", "p2"}
WorkflowIds == {"w1", "w2"}

VARIABLES
    modules,      \* page.tsx: the agent list the user edits
    apiKeys,      \* sessionStorage: the providers whose <provider>_api_key is stored
                  \* (keys are entered before the runs looked at)
    store,        \* the zustand state: isRunning, currentAgentIndex, results, error,
                  \* failedAgentIndex, agentStatus
    calls,        \* the startWorkflow invocations: position and local variables
    edits,        \* number of editor actions taken so far
    stops,        \* number of stopWorkflow calls so far
    faults,       \* number of agent turns with a request that did not come back 2xx
    route,        \* one request to the custom-provider route (POST /api/custom):
                  \* its inputs, position, outgoing request, console output, answer
    execution,    \* one request to POST /api/workflows/[id]/execute: the workflow
                  \* loaded, the keys sent, the loop's locals and the answer
    kv,           \* the Vercel KV database: provider:<id>, provider:list,
                  \* workflow:<id> and the set workflow_index
    providerCalls,  \* the invocations of the provider library under way
    workflowCalls   \* the invocations of the workflow library under way

vars == <<modules, apiKeys, store, calls, edits, stops, faults, route, execution,
          kv, providerCalls, workflowCalls>>

\* The state of the engine, and the rest.
engine == <<modules, apiKeys, store, calls, edits, stops, faults>>
storage == <<kv, providerCalls, workflowCalls>>
others == <<route, execution, storage>>

\* The state beside a request to the custom-provider route, and beside a
\* request to the execution route.
besidesRoute == <<engine, execution, storage>>
besidesExecution == <<engine, route, storage>>

\* ------------------------------------------------------------------- text
\* s.includes(t)
Contains(s, t) ==
    \E k \in 1 .. (Len(s) - Len(t) + 1) : SubSeq(s, k, k + Len(t) - 1) = t

\* !x for a string-or-null value
Falsy(x) == x = Null \/ x = ""

AgentTitle(i) == "Agent " \o ToString(i + 1)

\* ---------------------------------------------------------------- adapter
\* What one call of the provider route can come back with: a 2xx answer, a
\* non-2xx answer carrying {error}, or fetch() itself rejecting.
Outcomes ==
    { [kind |-> "ok",    status |-> 200, message |-> Null],
      [kind |-> "http",  status |-> 429, message |-> "Rate limit exceeded. Please try again later."],
      [kind |-> "http",  status |-> 401, message |-> "Invalid API key"],
      [kind |-> "http",  status |-> 500, message |-> "fetch failed"],
      [kind |-> "throw", status |-> 0,   message |-> "Failed to fetch"] }

\* The mocked provider: a fixed (deterministic) function of the request.
Reply(model, prompt) == "[" \o model \o "|" \o prompt \o "]"

Usage(prompt, response) ==
    [input_tokens |-> Len(prompt), output_tokens |-> Len(response)]

\* ----------------------------------------------------------- executeAgent
\* The key executeAgent looks up for a provider.
KeyOf(provider) == IF provider = "anthropic" THEN "anthropic" ELSE "openai"

\* The checks before the request: the message thrown, or Null.
PreFetchError(module, keys) ==
    IF Falsy(module.provider) \/ Falsy(module.selectedModel)
    THEN "Provider and model must be selected"
    ELSE IF KeyOf(module.provider) \notin keys
         THEN "API key not found for " \o module.provider
         ELSE Null

\* A request body that leaves the previous output out.
FormatPrompt_OwnPromptOnly(module, previousOutput) ==
    "USER INPUT: " \o module.prompt \o "\n\nYOUR ROLE: " \o module.prompt

\* The prompt field of the request body.
FormatPrompt(module, previousOutput) ==
    IF ~Falsy(previousOutput)
    THEN "CONTENT TO PROCESS: " \o previousOutput \o "\n\nYOUR ROLE: " \o module.prompt
    ELSE "USER INPUT: " \o module.prompt \o "\n\nYOUR ROLE: " \o module.prompt

\* A retry budget that is one too large.
RetryAllowed_OneMore(retryCount) == retryCount <= MAX_RETRIES

\* May this attempt be retried?
RetryAllowed(retryCount) == retryCount < MAX_RETRIES

\* The catch block of executeAgent retries an error whose message names fetch.
IsNetworkError(message) == Contains(message, "fetch")

\* ------------------------------------------------------------ agent lists
\* An agent list is indexed from 0; an agent keeps its id when the list is
\* edited.
Size(mods) == Cardinality(DOMAIN mods)

\* modules.some(m => m.id === id)
HasId(mods, id) == \E index \in DOMAIN mods : mods[index].id = id

\* modules.findIndex(m => m.id === id)
IndexOfId(mods, id) == CHOOSE index \in DOMAIN mods : mods[index].id = id

\* ------------------------------------------------------------------ store
NoStatus ==
    [present |-> FALSE, isComplete |-> FALSE, isExecuting |-> FALSE,
     error |-> Null, retryCount |-> 0]

InitialStore ==
    [isRunning |-> FALSE, currentAgentIndex |-> -1, results |-> <<>>,
     error |-> Null, failedAgentIndex |-> -1,
     agentStatus |-> [id \in AgentIds |-> NoStatus]]

IdleCall ==
    [pc |-> "idle", outcome |-> Null, modules |-> <<>>, startFromIndex |-> 0,
     i |-> 0, previousOutput |-> Null, retryCount |-> 0, prompt |-> Null,
     attempts |-> 0, rateLimited |-> 0, answered |-> 0,
     lastReply |-> Null, sent |-> <<>>, allOk |-> TRUE, stopped |-> FALSE,
     seed |-> <<>>, resumes |-> FALSE, thrown |-> Null]

\* History kept for the properties, not by the code.  attempts and rateLimited
\* count the requests and the 429 answers of the agent in turn; answered
\* counts the 2xx answers of the run and
\* lastReply is the text of the last one; sent lists the agents requested so
\* far while every answer was a 2xx one (allOk), and is dropped at the first
\* answer that is not; stopped records a stopWorkflow during the run; seed is
\* what the call found in results below startFromIndex, and resumes says that
\* the call resumes, with the same agent list, the run that just failed at
\* startFromIndex; thrown is the message of the last error raised in the
\* agent's turn.
Requested(call, i) ==
    [call EXCEPT !.attempts = @ + 1,
                 !.sent = IF call.allOk THEN Append(@, i) ELSE @]

Answered(call, o) ==
    IF o.kind = "ok" THEN [call EXCEPT !.answered = @ + 1]
    ELSE [call EXCEPT !.rateLimited = @ + (IF o.status = 429 THEN 1 ELSE 0),
                      !.allOk = FALSE, !.sent = <<>>, !.thrown = o.message]

Returned(call, how) == [call EXCEPT !.pc = "done", !.outcome = how, !.prompt = Null]

Min(a, b) == IF a < b THEN a ELSE b

\* results.slice(0, k)
Slice(results, k) == SubSeq(results, 1, Min(k, Len(results)))

\* modules.find(m => !m.provider || !m.selectedModel), as an index (or -1)
InvalidIndex(mods) ==
    LET bad == { j \in DOMAIN mods : Falsy(mods[j].provider) \/ Falsy(mods[j].selectedModel) }
    IN  IF bad = {} THEN -1 ELSE CHOOSE j \in bad : \A k \in bad : j <= k

\* A refusal that also drops the results.
SetInvalid_ClearsResults(st, mods) ==
    [st EXCEPT !.error = mods[InvalidIndex(mods)].title \o ": Provider and model must be selected",
               !.failedAgentIndex = InvalidIndex(mods),
               !.results = <<>>]

\* The set() that refuses a workflow with an unconfigured agent.
SetInvalid(st, mods) ==
    [st EXCEPT !.error = mods[InvalidIndex(mods)].title \o ": Provider and model must be selected",
               !.failedAgentIndex = InvalidIndex(mods)]

\* A start that keeps every result there is.
ExistingResults_KeepsAll(st, startFromIndex) == st.results

\* The results a start keeps.
ExistingResults(st, startFromIndex) ==
    IF startFromIndex > 0 THEN Slice(st.results, startFromIndex) ELSE <<>>

\* The set() that starts a run.
SetStarted(st, mods, startFromIndex) ==
    [isRunning |-> TRUE,
     currentAgentIndex |-> startFromIndex,
     error |-> Null,
     failedAgentIndex |-> -1,
     results |-> ExistingResults(st, startFromIndex),
     agentStatus |-> [id \in AgentIds |->
        IF HasId(mods, id)
        THEN [present |-> TRUE, isComplete |-> IndexOfId(mods, id) < startFromIndex,
              isExecuting |-> IndexOfId(mods, id) = startFromIndex,
              error |-> Null, retryCount |-> 0]
        ELSE NoStatus]]

\* The previousOutput a start begins with.
SeedOutput(st, startFromIndex) ==
    LET existing == ExistingResults(st, startFromIndex)
    IN  IF startFromIndex > 0 /\ Len(existing) > 0
        THEN existing[Len(existing)].output
        ELSE Null

\* The set() at the top of an agent's turn.
SetExecuting(st, module, i) ==
    [st EXCEPT !.currentAgentIndex = i,
               !.agentStatus[module.id] =
                   [@ EXCEPT !.present = TRUE, !.isExecuting = TRUE,
                             !.isComplete = FALSE, !.error = Null]]

\* A set() that stores an agent's result in place of the earlier ones.
SetResult_Replaces(st, module, i, response, usage) ==
    [st EXCEPT !.results = <<[agentIndex |-> i, input |-> module.prompt,
                              output |-> response, usage |-> usage]>>,
               !.agentStatus[module.id] =
                   [@ EXCEPT !.present = TRUE, !.isExecuting = FALSE,
                             !.isComplete = TRUE, !.error = Null]]

\* The set() that stores an agent's result.
SetResult(st, module, i, response, usage) ==
    [st EXCEPT !.results = Append(@, [agentIndex |-> i, input |-> module.prompt,
                                      output |-> response, usage |-> usage]),
               !.agentStatus[module.id] =
                   [@ EXCEPT !.present = TRUE, !.isExecuting = FALSE,
                             !.isComplete = TRUE, !.error = Null]]

\* A catch block that forgets to leave the running state.
SetFailed_StillRunning(st, module, i, errorMessage) ==
    [st EXCEPT !.error = module.title \o ": " \o errorMessage,
               !.failedAgentIndex = i,
               !.agentStatus[module.id] =
                   [@ EXCEPT !.present = TRUE, !.isExecuting = FALSE,
                             !.isComplete = FALSE, !.error = errorMessage,
                             !.retryCount = @ + 1]]

\* The set() of the loop's catch block.
SetFailed(st, module, i, errorMessage) ==
    [st EXCEPT !.error = module.title \o ": " \o errorMessage,
               !.failedAgentIndex = i,
               !.isRunning = FALSE,
               !.agentStatus[module.id] =
                   [@ EXCEPT !.present = TRUE, !.isExecuting = FALSE,
                             !.isComplete = FALSE, !.error = errorMessage,
                             !.retryCount = @ + 1]]

\* The set() after the last agent.
SetCompleted(st) ==
    [st EXCEPT !.isRunning = FALSE, !.currentAgentIndex = -1,
               !.error = Null, !.failedAgentIndex = -1]

\* stopWorkflow's set().
SetStopped(st) ==
    [st EXCEPT !.isRunning = FALSE, !.currentAgentIndex = -1,
               !.error = "Workflow stopped by user"]

\* A loop that never looks at isRunning.
StoppedAtLoopTop_NeverChecked(st) == FALSE

\* A startWorkflow without its guard.
AlreadyRunning_Unchecked(st) == FALSE

\* The guard at the head of startWorkflow.
AlreadyRunning(st) == st.isRunning

\* The check at the top of every turn of the loop.
StoppedAtLoopTop(st) == ~st.isRunning

\* The loop's catch block: its set() reads agentStatus[module.id].retryCount,
\* which throws a TypeError out of startWorkflow when the store holds no
\* status for the agent; the store is then left as it was.
CatchInLoop(st, call, i, errorMessage) ==
    LET module == call.modules[i] IN
    IF st.agentStatus[module.id].present
    THEN [store |-> SetFailed(st, module, i, errorMessage),
          call  |-> Returned([call EXCEPT !.i = i, !.thrown = errorMessage], "failed")]
    ELSE [store |-> st,
          call  |-> Returned([call EXCEPT !.i = i, !.thrown = errorMessage], "rejected")]

\* executeAgent(module, previousOutput, retryCount) up to its fetch: the
\* request is issued, or the error it throws reaches the loop's catch block.
CallExecuteAgent(st, call, i, retryCount, keys) ==
    LET module == call.modules[i]
        thrown == PreFetchError(module, keys)
    IN  IF thrown # Null
        THEN CatchInLoop(st, call, i, thrown)
        ELSE [store |-> st,
              call  |-> [Requested(call, i) EXCEPT
                                     !.pc = "fetch", !.i = i,
                                     !.retryCount = retryCount,
                                     !.prompt = FormatPrompt(module, call.previousOutput)]]

\* The loop of startWorkflow from the top of turn i to its next suspension
\* point or return.
RunLoop(st, call, i, keys) ==
    IF i >= Size(call.modules)
    THEN [store |-> SetCompleted(st), call |-> Returned([call EXCEPT !.i = i], "completed")]
    ELSE IF StoppedAtLoopTop(st)
         THEN [store |-> st, call |-> Returned([call EXCEPT !.i = i], "stopped")]
         ELSE CallExecuteAgent(SetExecuting(st, call.modules[i], i),
                               [call EXCEPT !.attempts = 0, !.rateLimited = 0, !.thrown = Null],
                               i, 0, keys)

\* startWorkflow(mods, startFromIndex) up to its first suspension point.
StartWorkflowStep(st, mods, startFromIndex, keys) ==
    IF AlreadyRunning(st)
    THEN [store |-> st,
          call  |-> Returned([IdleCall EXCEPT !.startFromIndex = startFromIndex], "refused")]
    ELSE IF InvalidIndex(mods) >= 0
         THEN [store |-> SetInvalid(st, mods),
               call  |-> Returned([IdleCall EXCEPT !.startFromIndex = startFromIndex,
                                                   !.modules = mods], "invalid")]
         ELSE RunLoop(SetStarted(st, mods, startFromIndex),
                      [IdleCall EXCEPT !.modules = mods,
                                       !.startFromIndex = startFromIndex,
                                       !.previousOutput = SeedOutput(st, startFromIndex)],
                      startFromIndex, keys)

\* An error caught by executeAgent's own catch block: retried after a sleep,
\* or thrown on to the loop.
CatchInExecuteAgent(st, call, message) ==
    IF IsNetworkError(message) /\ RetryAllowed(call.retryCount)
    THEN [store |-> st, call |-> [call EXCEPT !.pc = "sleep", !.prompt = Null]]
    ELSE CatchInLoop(st, call, call.i, message)

\* The continuation of startWorkflow when the request of call.i settles.
AfterFetch(st, call, o, keys) ==
    LET module == call.modules[call.i] IN
    IF o.kind = "ok"
    THEN LET response == Reply(module.selectedModel, call.prompt)
         IN  RunLoop(SetResult(st, module, call.i, response, Usage(call.prompt, response)),
                     [call EXCEPT !.previousOutput = response,
                                  !.lastReply = response,
                                  !.prompt = Null],
                     call.i + 1, keys)
    ELSE IF o.kind = "http"
         THEN IF o.status = 429 /\ RetryAllowed(call.retryCount)
              THEN [store |-> st, call |-> [call EXCEPT !.pc = "sleep", !.prompt = Null]]
              ELSE CatchInExecuteAgent(st, call, o.message)
         ELSE CatchInExecuteAgent(st, call, o.message)

\* No request to the custom-provider route is under way.
NoRequest == [pc |-> "none"]

\* No request to the execution route is under way.
NoExecution == [pc |-> "none"]

\* Nothing is stored in the database and no library call is under way.
EmptyKv ==
    [providers |-> [id \in ProviderIds |-> [present |-> FALSE, name |-> ""]],
     list |-> <<>>,
     workflows |-> {},
     index |-> {}]

NoCalls == [pc |-> "none"]

StorageIdle ==
    /\ kv = EmptyKv
    /\ providerCalls = NoCalls
    /\ workflowCalls = NoCalls

\* The server routes at rest beside the engine.
OthersIdle ==
    /\ route = NoRequest
    /\ execution = NoExecution
    /\ StorageIdle

\* ---------------------------------------------------------------- actions
ModuleOf(i, provider, model) ==
    [id |-> i, title |-> AgentTitle(i), prompt |-> "role" \o ToString(i),
     provider |-> provider, selectedModel |-> model]

\* The page once NumAgents agents were added and given a provider and a
\* model, with the API keys the user has saved; the store as created.
Init ==
    /\ modules = [i \in AgentIds |->
                      ModuleOf(i, IF i = 0 THEN "anthropic" ELSE "openai", "m")]
    /\ apiKeys \in SUBSET {"anthropic", "openai"}
    /\ store = InitialStore
    /\ calls = [c \in CallIds |-> IdleCall]
    /\ edits = 0
    /\ stops = 0
    /\ faults = 0
    /\ OthersIdle

NextCall(c) ==
    /\ calls[c].pc = "idle"
    /\ IF c = 1 THEN TRUE ELSE calls[c - 1].pc # "idle"

Apply(c, r) ==
    /\ store' = r.store
    /\ calls' = [calls EXCEPT ![c] = r.call]

\* The locals of a returned invocation are kept until the next invocation.
Forgotten(call) == IF call.pc = "done" THEN [IdleCall EXCEPT !.pc = "done"] ELSE call

\* Does a call with this list and index resume the run that just failed there?
ResumesFailed(mods, startFromIndex) ==
    /\ startFromIndex > 0
    /\ store.failedAgentIndex = startFromIndex
    /\ \E d \in CallIds : /\ calls[d].pc = "done"
                          /\ calls[d].outcome = "failed"
                          /\ calls[d].i = startFromIndex
                          /\ calls[d].modules = mods

Begin(c, r) ==
    /\ store' = r.store
    /\ calls' = [d \in CallIds |->
                    IF d = c
                    THEN [r.call EXCEPT !.seed = SubSeq(store.results, 1,
                                                        Min(r.call.startFromIndex,
                                                            Len(store.results))),
                                        !.resumes = ResumesFailed(r.call.modules,
                                                                  r.call.startFromIndex)]
                    ELSE Forgotten(calls[d])]

\* handleProviderChange(provider) of an agent card, through updateModule: the
\* model is reset with the provider.
ProviderChanged(mods, i, provider) ==
    [mods EXCEPT ![i] = [@ EXCEPT !.provider = provider, !.selectedModel = Null]]

\* handleModelChange(model) of an agent card, through updateModule.
ModelChanged(mods, i, model) ==
    [mods EXCEPT ![i] = [@ EXCEPT !.selectedModel = model]]

\* deleteModule(id): the agent is filtered out and the titles renumbered.
Deleted(mods, id) ==
    LET p == IndexOfId(mods, id) IN
    [index \in 0 .. (Size(mods) - 2) |->
        [(IF index < p THEN mods[index] ELSE mods[index + 1])
            EXCEPT !.title = AgentTitle(index)]]

\* The delete button of a card is shown while the list has more than one.
CanDelete(mods) == Size(mods) > 1

EditedOnce(mods) ==
    ({ ProviderChanged(mods, i, p) : i \in DOMAIN mods, p \in {"anthropic", "openai", Null} }
        \cup { ModelChanged(mods, i, m) : i \in DOMAIN mods, m \in {"m", Null} }
        \cup { Deleted(mods, mods[i].id) : i \in { j \in DOMAIN mods : CanDelete(mods) } })
    \ {mods}

\* The agent lists n editor actions away.  No invocation reads the page's list
\* after it was called, so the edits are taken together with the call that
\* passes the edited list.
RECURSIVE EditedTimes(_, _)
EditedTimes(mods, n) ==
    IF n = 0 THEN {mods}
    ELSE UNION { EditedOnce(m) : m \in EditedTimes(mods, n - 1) }

Edit(n, mods) ==
    /\ mods \in EditedTimes(modules, n)
    /\ modules' = mods
    /\ edits' = edits + n

\* startWorkflow(modules): the Run button, handleRetryAll, retryEntireWorkflow
RunWorkflow(c) ==
    /\ NextCall(c)
    /\ \E n \in 0 .. (MaxEdits - edits) : \E mods \in EditedTimes(modules, n) :
          /\ Edit(n, mods)
          /\ Begin(c, StartWorkflowStep(store, mods, 0, apiKeys))
    /\ UNCHANGED <<apiKeys, stops, faults>>
    /\ UNCHANGED others

\* startWorkflow(modules, failedAgentIndex): handleRetryFromFailed, retryFromFailed
RetryFromFailed(c) ==
    /\ NextCall(c)
    /\ store.failedAgentIndex >= 0
    /\ \E n \in 0 .. (MaxEdits - edits) : \E mods \in EditedTimes(modules, n) :
          /\ Edit(n, mods)
          /\ Begin(c, StartWorkflowStep(store, mods, store.failedAgentIndex, apiKeys))
    /\ UNCHANGED <<apiKeys, stops, faults>>
    /\ UNCHANGED others

\* the request of an invocation settles
FetchSettles(c) ==
    /\ calls[c].pc = "fetch"
    /\ \E o \in Outcomes :
          /\ o.kind # "ok" => (calls[c].attempts > 1 \/ faults < MaxFaultyTurns)
          /\ faults' = faults + (IF o.kind # "ok" /\ calls[c].attempts = 1 THEN 1 ELSE 0)
          /\ Apply(c, AfterFetch(store, Answered(calls[c], o), o, apiKeys))
    /\ UNCHANGED <<modules, apiKeys, edits, stops>>
    /\ UNCHANGED others

\* the backoff sleep of an invocation elapses: executeAgent calls itself
SleepElapses(c) ==
    /\ calls[c].pc = "sleep"
    /\ Apply(c, CallExecuteAgent(store, calls[c], calls[c].i, calls[c].retryCount + 1, apiKeys))
    /\ UNCHANGED <<modules, apiKeys, edits, stops, faults>>
    /\ UNCHANGED others

\* stopWorkflow()
StopWorkflow ==
    /\ stops < MaxStops
    /\ stops' = stops + 1
    /\ store' = SetStopped(store)
    /\ calls' = [c \in CallIds |->
                    IF calls[c].pc \in {"fetch", "sleep", "hung"}
                    THEN [calls[c] EXCEPT !.stopped = TRUE]
                    ELSE calls[c]]
    /\ UNCHANGED <<modules, apiKeys, edits, faults>>
    /\ UNCHANGED others

Next ==
    \/ \E c \in CallIds : RunWorkflow(c)
    \/ \E c \in CallIds : RetryFromFailed(c)
    \/ \E c \in CallIds : FetchSettles(c)
    \/ \E c \in CallIds : SleepElapses(c)
    \/ StopWorkflow

Spec == Init /\ [][Next]_vars

\* The engine when every request that is in flight gets its answer and every
\* backoff timer fires: a pending fetch() settles, a pending setTimeout runs.
SpecFair ==
    /\ Spec
    /\ \A c \in CallIds : WF_vars(FetchSettles(c)) /\ WF_vars(SleepElapses(c))

\* the provider never answers the request of an invocation: the promise of
\* fetch() stays pending, and executeAgent sets no timer and passes no abort
\* signal that could settle it
FetchHangs(c) ==
    /\ calls[c].pc = "fetch"
    /\ calls' = [calls EXCEPT ![c].pc = "hung"]
    /\ UNCHANGED <<modules, apiKeys, store, edits, stops, faults>>
    /\ UNCHANGED others

\* What can resume invocation c.
Resumes(c) == FetchSettles(c) \/ SleepElapses(c)

NextWithHang ==
    \/ Next
    \/ \E c \in CallIds : FetchHangs(c)

\* The engine with providers that may never answer.
SpecWithHang == Init /\ [][NextWithHang]_vars

\* ------------------------------------------ custom-provider engine variant
\* The second useWorkflowStore of workflowStore.ts, with its own executeAgent.
InitialStoreCustom ==
    [isRunning |-> FALSE, currentAgentIndex |-> 0, results |-> <<>>,
     error |-> Null, failedAgentIndex |-> -1,
     agentStatus |-> [id \in AgentIds |-> NoStatus]]

\* The set() at the head of startWorkflow.
SetStartedCustom(st, startIndex) ==
    [isRunning |-> TRUE,
     currentAgentIndex |-> startIndex,
     results |-> IF startIndex = 0 THEN <<>> ELSE Slice(st.results, startIndex),
     error |-> Null,
     failedAgentIndex |-> -1,
     agentStatus |-> [id \in AgentIds |-> NoStatus]]

\* The set() at the top of an agent's turn.
SetExecutingCustom(st, module, i) ==
    [st EXCEPT !.currentAgentIndex = i,
               !.agentStatus[module.id] =
                   [present |-> TRUE, isExecuting |-> TRUE, isComplete |-> FALSE,
                    error |-> Null, retryCount |-> 0]]

\* The set() that stores an agent's result.
SetResultCustom(st, module, result) ==
    [st EXCEPT !.results = Append(@, result),
               !.agentStatus[module.id] =
                   [present |-> TRUE, isExecuting |-> FALSE, isComplete |-> TRUE,
                    error |-> Null, retryCount |-> 0]]

\* The set() of the loop's catch block.
SetFailedCustom(st, module, i, errorMessage) ==
    [st EXCEPT !.isRunning = FALSE,
               !.error = errorMessage,
               !.failedAgentIndex = i,
               !.agentStatus[module.id] =
                   [present |-> TRUE, isExecuting |-> FALSE, isComplete |-> FALSE,
                    error |-> errorMessage, retryCount |-> 0]]

\* The set() after the last agent.
SetCompletedCustom(st) == [st EXCEPT !.isRunning = FALSE]

\* stopWorkflow's set().
SetStoppedCustom(st) == [st EXCEPT !.isRunning = FALSE]

\* The checks of executeAgent before the request: the message thrown, or Null.
PreFetchErrorCustom(module, keys) ==
    IF Falsy(module.provider) \/ Falsy(module.selectedModel)
    THEN "Invalid configuration for agent \"" \o module.title \o "\""
    ELSE IF module.provider \notin keys
         THEN "API key not found for " \o module.provider
         ELSE Null

\* const prompt = input ? `${module.prompt}\n\nInput: ${input}` : module.prompt
FormatPromptCustom(module, input) ==
    IF ~Falsy(input) THEN module.prompt \o "\n\nInput: " \o input ELSE module.prompt

\* The loop of startWorkflow from the top of turn i to its next suspension
\* point or return.
RunLoopCustom(st, call, i, keys) ==
    IF i >= Size(call.modules)
    THEN [store |-> SetCompletedCustom(st),
          call  |-> Returned([call EXCEPT !.i = i], "completed")]
    ELSE LET module == call.modules[i]
             executing == SetExecutingCustom(st, module, i)
             thrown == PreFetchErrorCustom(module, keys)
         IN  IF thrown # Null
             THEN [store |-> SetFailedCustom(executing, module, i, thrown),
                   call  |-> Returned([call EXCEPT !.i = i, !.thrown = thrown], "failed")]
             ELSE [store |-> executing,
                   call  |-> [Requested([call EXCEPT !.attempts = 0, !.rateLimited = 0,
                                                     !.thrown = Null], i)
                                 EXCEPT !.pc = "fetch", !.i = i,
                                        !.prompt = FormatPromptCustom(module,
                                                                      call.previousOutput)]]

\* startWorkflow(mods, startIndex) up to its first suspension point.
StartWorkflowCustomStep(st, mods, startIndex, keys) ==
    RunLoopCustom(SetStartedCustom(st, startIndex),
                  [IdleCall EXCEPT !.modules = mods, !.startFromIndex = startIndex],
                  startIndex, keys)

\* The continuation of startWorkflow when the request of call.i settles.
AfterFetchCustom(st, call, o, keys) ==
    LET module == call.modules[call.i] IN
    IF o.kind = "ok"
    THEN LET response == Reply(module.selectedModel, call.prompt)
             result == [agentIndex |-> call.i, input |-> call.prompt,
                        output |-> response, usage |-> Usage(call.prompt, response)]
         IN  RunLoopCustom(SetResultCustom(st, module, result),
                           [call EXCEPT !.previousOutput = response,
                                        !.lastReply = response,
                                        !.prompt = Null],
                           call.i + 1, keys)
    ELSE [store |-> SetFailedCustom(st, module, call.i, o.message),
          call  |-> Returned(call, "failed")]

\* The page with its agents configured and the keys the user has saved; the
\* store as created.
InitCustom ==
    /\ modules = [i \in AgentIds |->
                      ModuleOf(i, IF i = 0 THEN "anthropic" ELSE "openai", "m")]
    /\ apiKeys \in SUBSET {"anthropic", "openai"}
    /\ store = InitialStoreCustom
    /\ calls = [c \in CallIds |-> IdleCall]
    /\ edits = 0
    /\ stops = 0
    /\ faults = 0
    /\ OthersIdle

\* startWorkflow(modules)
RunWorkflowCustom(c) ==
    /\ NextCall(c)
    /\ Begin(c, StartWorkflowCustomStep(store, modules, 0, apiKeys))
    /\ UNCHANGED <<modules, apiKeys, edits, stops, faults>>
    /\ UNCHANGED others

\* startWorkflow(modules, failedAgentIndex)
RetryFromFailedCustom(c) ==
    /\ NextCall(c)
    /\ store.failedAgentIndex >= 0
    /\ Begin(c, StartWorkflowCustomStep(store, modules, store.failedAgentIndex, apiKeys))
    /\ UNCHANGED <<modules, apiKeys, edits, stops, faults>>
    /\ UNCHANGED others

\* the request of an invocation settles
FetchSettlesCustom(c) ==
    /\ calls[c].pc = "fetch"
    /\ \E o \in Outcomes :
          /\ o.kind # "ok" => faults < MaxFaultyTurns
          /\ faults' = faults + (IF o.kind # "ok" THEN 1 ELSE 0)
          /\ Apply(c, AfterFetchCustom(store, Answered(calls[c], o), o, apiKeys))
    /\ UNCHANGED <<modules, apiKeys, edits, stops>>
    /\ UNCHANGED others

\* stopWorkflow()
StopWorkflowCustom ==
    /\ stops < MaxStops
    /\ stops' = stops + 1
    /\ store' = SetStoppedCustom(store)
    /\ calls' = [c \in CallIds |->
                    IF calls[c].pc = "fetch"
                    THEN [calls[c] EXCEPT !.stopped = TRUE]
                    ELSE calls[c]]
    /\ UNCHANGED <<modules, apiKeys, edits, faults>>
    /\ UNCHANGED others

NextCustom ==
    \/ \E c \in CallIds : RunWorkflowCustom(c)
    \/ \E c \in CallIds : RetryFromFailedCustom(c)
    \/ \E c \in CallIds : FetchSettlesCustom(c)
    \/ StopWorkflowCustom

SpecCustom == InitCustom /\ [][NextCustom]_vars

\* ------------------------------------------------- custom-provider route
\* JSON values: a tag and a payload.  An array holds its items in order, an
\* object its entries [k |-> key, x |-> value] in insertion order.
JStr(text) == [t |-> "string", v |-> text]
JNum(n) == [t |-> "number", v |-> n]
JNull == [t |-> "null", v |-> 0]
JUndefined == [t |-> "undefined", v |-> 0]
JArr(items) == [t |-> "array", v |-> items]
JObj(entries) == [t |-> "object", v |-> entries]
Entry(key, value) == [k |-> key, x |-> value]

\* The text a replacement string stands for at one match (String.prototype
\* .replace): $$ is a dollar sign, $& the match, $` the text before the match
\* and $' the text after it; any other character stands for itself.
RECURSIVE Expansion(_, _, _, _, _)
Expansion(replacement, j, matched, before, after) ==
    IF j > Len(replacement) THEN ""
    ELSE LET two == IF j < Len(replacement) THEN SubSeq(replacement, j, j + 1) ELSE ""
         IN  IF two = "$$" THEN "$" \o Expansion(replacement, j + 2, matched, before, after)
             ELSE IF two = "$&" THEN matched \o Expansion(replacement, j + 2, matched, before, after)
             ELSE IF two = "$`" THEN before \o Expansion(replacement, j + 2, matched, before, after)
             ELSE IF two = "$'" THEN after \o Expansion(replacement, j + 2, matched, before, after)
             ELSE SubSeq(replacement, j, j) \o Expansion(replacement, j + 1, matched, before, after)

\* text.replace(new RegExp(token, 'g'), replacement) from position k on, for a
\* token that matches itself: every match, left to right, gives way to the
\* expansion of the replacement; what was put in is not searched again.
RECURSIVE ReplaceGlobal(_, _, _, _)
ReplaceGlobal(text, token, replacement, k) ==
    IF k > Len(text) THEN ""
    ELSE IF k + Len(token) - 1 <= Len(text) /\ SubSeq(text, k, k + Len(token) - 1) = token
         THEN Expansion(replacement, 1, token,
                        SubSeq(text, 1, k - 1), SubSeq(text, k + Len(token), Len(text)))
                  \o ReplaceGlobal(text, token, replacement, k + Len(token))
         ELSE SubSeq(text, k, k) \o ReplaceGlobal(text, token, replacement, k + 1)

\* The token of a variable.
Token(key) == "{{" \o key \o "}}"

\* Object.entries(variables).reduce(...): one global replace per variable, in
\* the order of the entries, each on the result of the one before.
RECURSIVE ReplaceInString(_, _, _)
ReplaceInString(text, variables, n) ==
    IF n > Len(variables) THEN text
    ELSE ReplaceInString(ReplaceGlobal(text, Token(variables[n][1]), variables[n][2], 1),
                         variables, n + 1)

\* replaceTemplateVars(template, variables) of the route
RECURSIVE ReplaceTemplateVars(_, _)
ReplaceTemplateVars(template, variables) ==
    IF template.t = "string"
    THEN JStr(ReplaceInString(template.v, variables, 1))
    ELSE IF template.t = "array"
         THEN JArr([n \in 1 .. Len(template.v) |->
                       ReplaceTemplateVars(template.v[n], variables)])
         ELSE IF template.t = "object"
              THEN JObj([n \in 1 .. Len(template.v) |->
                            Entry(template.v[n].k,
                                  ReplaceTemplateVars(template.v[n].x, variables))])
              ELSE template

\* const templateVars = { prompt, model, api_key: apiKey }
TemplateVars(prompt, model, apiKey) ==
    << <<"prompt", prompt>>, <<"model", model>>, <<"api_key", apiKey>> >>

\* 'key' in object
HasField(object, key) ==
    object.t = "object" /\ \E n \in 1 .. Len(object.v) : object.v[n].k = key

\* object[key]
Field(object, key) ==
    IF HasField(object, key)
    THEN object.v[CHOOSE n \in 1 .. Len(object.v) : object.v[n].k = key].x
    ELSE JUndefined

\* object[key] = value
SetField(object, key, value) ==
    IF HasField(object, key)
    THEN JObj([n \in 1 .. Len(object.v) |->
                  IF object.v[n].k = key THEN Entry(key, value) ELSE object.v[n]])
    ELSE JObj(Append(object.v, Entry(key, value)))

\* The characters URLSearchParams writes as they are; a space becomes "+" and
\* any other character its percent-encoded byte.
Escaped(c) ==
    CASE c = " " -> "+"   [] c = "$" -> "%24" [] c = "&" -> "%26" [] c = "{" -> "%7B"
      [] c = "}" -> "%7D" [] c = "/" -> "%2F" [] c = ":" -> "%3A" [] c = "=" -> "%3D"
      [] c = "?" -> "%3F" [] c = "+" -> "%2B" [] c = "[" -> "%5B" [] c = "]" -> "%5D"
      [] c = "`" -> "%60" [] c = "'" -> "%27" [] c = "|" -> "%7C" [] OTHER -> c

RECURSIVE Encode(_, _)
Encode(text, k) ==
    IF k > Len(text) THEN ""
    ELSE Escaped(SubSeq(text, k, k)) \o Encode(text, k + 1)

\* url.searchParams.append(key, value) for every entry, then url.toString()
RECURSIVE QueryString(_, _)
QueryString(params, n) ==
    IF n > Len(params.v) THEN ""
    ELSE (IF n = 1 THEN "?" ELSE "&")
             \o Encode(params.v[n].k, 1) \o "=" \o Encode(params.v[n].x.v, 1)
             \o QueryString(params, n + 1)

\* buildRequestUrl(baseUrl, queryParams, auth, apiKey)
BuildRequestUrl(baseUrl, queryParams, auth, apiKey) ==
    baseUrl \o QueryString(IF auth.type = "query"
                           THEN JObj(Append(queryParams.v, Entry(auth.key, JStr(apiKey))))
                           ELSE queryParams, 1)

\* buildRequestHeaders(provider, apiKey)
BuildRequestHeaders(provider, apiKey) ==
    LET headers == JObj(<<Entry("Content-Type", JStr("application/json"))>>)
    IN  IF provider.auth.type = "bearer"
        THEN SetField(headers,
                      IF provider.auth.key = "" THEN "Authorization" ELSE provider.auth.key,
                      JStr("Bearer " \o apiKey))
        ELSE IF provider.auth.type = "header"
             THEN SetField(headers, provider.auth.key, JStr(apiKey))
             ELSE headers

\* text.replace(pattern, replacement) with a string pattern: the first
\* occurrence only.
RECURSIVE ReplaceFirst(_, _, _, _)
ReplaceFirst(text, pattern, replacement, k) ==
    IF k > Len(text) THEN ""
    ELSE IF k + Len(pattern) - 1 <= Len(text) /\ SubSeq(text, k, k + Len(pattern) - 1) = pattern
         THEN Expansion(replacement, 1, pattern,
                        SubSeq(text, 1, k - 1), SubSeq(text, k + Len(pattern), Len(text)))
                  \o SubSeq(text, k + Len(pattern), Len(text))
         ELSE SubSeq(text, k, k) \o ReplaceFirst(text, pattern, replacement, k + 1)

Redacted == "[REDACTED]"

\* The object logged as 'With headers:'.
HeadersLogged(headers, provider) ==
    SetField(SetField(headers, "Authorization",
                      IF HasField(headers, "Authorization") THEN JStr(Redacted) ELSE JUndefined),
             provider.auth.key, JStr(Redacted))

\* lodash stringToPath for a path of dotted fields and bracketed indexes.
RECURSIVE StringToPath(_, _, _)
StringToPath(path, k, current) ==
    LET done == IF current = "" THEN <<>> ELSE <<current>> IN
    IF k > Len(path) THEN done
    ELSE IF SubSeq(path, k, k) \in {".", "[", "]"}
         THEN done \o StringToPath(path, k + 1, "")
         ELSE StringToPath(path, k + 1, current \o SubSeq(path, k, k))

Digits == {"0", "1", "2", "3", "4", "5", "6", "7", "8", "9"}

IsIndex(key) == Len(key) > 0 /\ \A k \in 1 .. Len(key) : SubSeq(key, k, k) \in Digits

RECURSIVE IndexOf(_, _)
IndexOf(key, n) ==
    IF n = 0 THEN 0
    ELSE 10 * IndexOf(key, n - 1) + (CHOOSE d \in 0 .. 9 : ToString(d) = SubSeq(key, n, n))

\* value[key] for a JSON value
Property(value, key) ==
    IF value.t = "object" THEN Field(value, key)
    ELSE IF value.t \in {"array", "string"}
         THEN IF key = "length" THEN JNum(Len(value.v))
              ELSE IF IsIndex(key) /\ IndexOf(key, Len(key)) < Len(value.v)
                   THEN IF value.t = "array"
                        THEN value.v[IndexOf(key, Len(key)) + 1]
                        ELSE JStr(SubSeq(value.v, IndexOf(key, Len(key)) + 1,
                                         IndexOf(key, Len(key)) + 1))
                   ELSE JUndefined
         ELSE JUndefined

\* lodash baseGet: walk the path while the value is neither null nor undefined
RECURSIVE BaseGet(_, _, _)
BaseGet(value, path, n) ==
    IF n > Len(path) THEN value
    ELSE IF value.t \in {"null", "undefined"} THEN JUndefined
         ELSE BaseGet(Property(value, path[n]), path, n + 1)

\* get(object, path)
Get(object, path) ==
    IF object.t \in {"null", "undefined"} \/ StringToPath(path, 1, "") = <<>>
    THEN JUndefined
    ELSE BaseGet(object, StringToPath(path, 1, ""), 1)

\* Provider configurations as the provider form stores them.
OpenAILike ==
    [endpoint |-> "https://api.x/v1/chat",
     auth |-> [type |-> "bearer", key |-> "Authorization"],
     requestTemplate |->
        JObj(<<Entry("body",
                 JObj(<<Entry("model", JStr("{{model}}")),
                        Entry("messages",
                              JArr(<<JObj(<<Entry("role", JStr("user")),
                                            Entry("content", JStr("{{prompt}}"))>>)>>)),
                        Entry("temperature", JNum(1)),
                        Entry("stop", JNull)>>))>>),
     responsePath |-> "choices[0].message.content"]

GoogleLike ==
    [endpoint |-> "https://g.x/v1/{{model}}",
     auth |-> [type |-> "query", key |-> "key"],
     requestTemplate |->
        JObj(<<Entry("query", JObj(<<Entry("alt", JStr("json"))>>)),
               Entry("body",
                 JObj(<<Entry("contents",
                          JArr(<<JObj(<<Entry("parts",
                                   JArr(<<JObj(<<Entry("text", JStr("{{prompt}}"))>>)>>))>>)>>))>>))>>),
     responsePath |-> "candidates[0].text"]

KeyInBody ==
    [endpoint |-> "https://h.x/run",
     auth |-> [type |-> "header", key |-> "x-api-key"],
     requestTemplate |->
        JObj(<<Entry("body",
                 JObj(<<Entry("token", JStr("{{api_key}}")),
                        Entry("input", JArr(<<JStr("{{prompt}} | {{prompt}}"), JNum(2)>>))>>))>>),
     responsePath |-> "text"]

KeyInQuery ==
    [endpoint |-> "https://q.x/run",
     auth |-> [type |-> "query", key |-> "key"],
     requestTemplate |->
        JObj(<<Entry("query", JObj(<<Entry("token", JStr("{{api_key}}"))>>)),
               Entry("model", JStr("{{model}}")),
               Entry("q", JStr("{{prompt}}"))>>),
     responsePath |-> "text"]

Providers == {OpenAILike, GoogleLike, KeyInBody, KeyInQuery}

Prompts == {"", "hello", "5 $$ off", "say {{api_key}}"}
Models == {"m1"}
ApiKeys == {"sk-1", "sk-22"}

\* What the provider may answer: a 2xx JSON body, or a non-2xx answer with
\* a JSON body or none.
ResponseBodies ==
    { JObj(<<Entry("choices",
               JArr(<<JObj(<<Entry("message", JObj(<<Entry("content", JStr("hello"))>>))>>)>>))>>),
      JObj(<<Entry("choices",
               JArr(<<JObj(<<Entry("message", JObj(<<Entry("content", JNull)>>))>>)>>))>>),
      JObj(<<Entry("choices", JArr(<<>>))>>),
      JObj(<<Entry("candidates", JArr(<<JObj(<<Entry("text", JStr("hello"))>>)>>))>>),
      JObj(<<Entry("text", JStr("hello"))>>),
      JObj(<<Entry("text", JNull)>>) }

ErrorBodies ==
    { JObj(<<Entry("error", JObj(<<Entry("message", JStr("bad request"))>>))>>),
      JNull }

ProviderAnswers ==
    { [ok |-> TRUE, status |-> 200, statusText |-> "OK", data |-> d] :
          d \in ResponseBodies }
        \cup { [ok |-> FALSE, status |-> 400, statusText |-> "Bad Request", data |-> d] :
                  d \in ErrorBodies }

\* No answer of the provider yet.
NoAnswer == [ok |-> FALSE, status |-> 0, statusText |-> "", data |-> JUndefined]

\* A request body {prompt, apiKey, model, provider...} that reached a route.
Received(version, provider, prompt, model, apiKey) ==
    [pc |-> "received", version |-> version, provider |-> provider, prompt |-> prompt,
     model |-> model, apiKey |-> apiKey, url |-> "", headers |-> JObj(<<>>),
     body |-> JUndefined, logs |-> <<>>, response |-> NoAnswer, status |-> 0,
     answer |-> JUndefined]

\* NextResponse.json(answer, {status}) ends the request.
Responded(r, status, answer, logged) ==
    [r EXCEPT !.pc = "done", !.status = status, !.answer = answer, !.logs = @ \o logged]

\* The catch block of the route: the error is logged and answered as a 500.
RouteCatch(r, message, logged) ==
    Responded(r, 500, JObj(<<Entry("error", JStr(message))>>),
              logged \o <<JStr("Error: " \o message)>>)

\* 'body' in requestTemplate ? requestTemplate.body : requestTemplate
BodyTemplate(provider) ==
    IF HasField(provider.requestTemplate, "body")
    THEN Field(provider.requestTemplate, "body")
    ELSE provider.requestTemplate

\* POST /api/custom up to its fetch.
PostStep(r) ==
    LET provider == r.provider
        templateVars == TemplateVars(r.prompt, r.model, r.apiKey)
        baseUrl == ReplaceTemplateVars(JStr(provider.endpoint), templateVars).v
        queryParams == IF HasField(provider.requestTemplate, "query")
                       THEN ReplaceTemplateVars(Field(provider.requestTemplate, "query"),
                                                templateVars)
                       ELSE JObj(<<>>)
        url == BuildRequestUrl(baseUrl, queryParams, provider.auth, r.apiKey)
        headers == BuildRequestHeaders(provider, r.apiKey)
        requestBody == ReplaceTemplateVars(BodyTemplate(provider), templateVars)
    IN  IF r.prompt = "" THEN RouteCatch(r, "Prompt is required", <<>>)
        ELSE IF r.apiKey = "" THEN RouteCatch(r, "API key is required", <<>>)
        ELSE IF r.model = "" THEN RouteCatch(r, "Model is required", <<>>)
        ELSE [r EXCEPT !.pc = "fetch", !.url = url, !.headers = headers,
                       !.body = requestBody,
                       !.logs = << JStr(ReplaceFirst(url, r.apiKey, Redacted, 1)),
                                   HeadersLogged(headers, provider),
                                   requestBody >>]

\* errorData?.error?.message || errorData?.message ||
\* `Provider API error: ${response.status} ${response.statusText}`
ErrorMessage(errorData, status, statusText) ==
    LET nested == Get(errorData, "error.message")
        flat == Get(errorData, "message")
    IN  IF nested.t = "string" /\ nested.v # "" THEN nested.v
        ELSE IF flat.t = "string" /\ flat.v # "" THEN flat.v
        ELSE "Provider API error: " \o ToString(status) \o " " \o statusText

\* POST /api/custom from the answer of the provider on.
AnswerStep(r, a) ==
    LET got == [r EXCEPT !.response = a] IN
    IF ~a.ok
    THEN RouteCatch(got, ErrorMessage(a.data, a.status, a.statusText), <<a.data>>)
    ELSE LET result == Get(a.data, r.provider.responsePath)
         IN  IF result = JUndefined
             THEN RouteCatch(got,
                             "Could not find response at path: " \o r.provider.responsePath,
                             <<a.data>>)
             ELSE Responded(got, 200, JObj(<<Entry("response", result)>>), <<a.data>>)

\* replaceTemplateVars(template, vars) of the route that takes the provider
\* configuration in the request: arrays and objects alike are rebuilt by
\* spreading into an object literal, from [] for an array and {} for an object,
\* so an array with items comes back as an object keyed "0", "1", ...
RECURSIVE ReplaceTemplateVarsInline(_, _)
ReplaceTemplateVarsInline(template, variables) ==
    IF template.t = "string"
    THEN JStr(ReplaceInString(template.v, variables, 1))
    ELSE IF template.t = "array"
         THEN IF template.v = <<>> THEN template
              ELSE JObj([n \in 1 .. Len(template.v) |->
                            Entry(ToString(n - 1),
                                  ReplaceTemplateVarsInline(template.v[n], variables))])
         ELSE IF template.t = "object"
              THEN JObj([n \in 1 .. Len(template.v) |->
                            Entry(template.v[n].k,
                                  ReplaceTemplateVarsInline(template.v[n].x, variables))])
              ELSE template

\* const templateVars = { prompt, model, apiKey }
TemplateVarsInline(prompt, model, apiKey) ==
    << <<"prompt", prompt>>, <<"model", model>>, <<"apiKey", apiKey>> >>

\* providerConfig.requestTemplate?.body, or undefined
BodyTemplateInline(provider) == Field(provider.requestTemplate, "body")

\* The same route up to its fetch.
PostInlineStep(r) ==
    LET providerConfig == r.provider
        templateVars == TemplateVarsInline(r.prompt, r.model, r.apiKey)
        replaced == IF HasField(providerConfig.requestTemplate, "query")
                    THEN ReplaceTemplateVarsInline(
                             Field(providerConfig.requestTemplate, "query"), templateVars)
                    ELSE JObj(<<>>)
        queryParams == IF providerConfig.auth.type = "query"
                       THEN SetField(replaced, providerConfig.auth.key, JStr(r.apiKey))
                       ELSE replaced
        url == providerConfig.endpoint \o QueryString(queryParams, 1)
        plain == JObj(<<Entry("Content-Type", JStr("application/json"))>>)
        headers == IF providerConfig.auth.type = "bearer"
                   THEN SetField(plain, "Authorization", JStr("Bearer " \o r.apiKey))
                   ELSE IF providerConfig.auth.type = "header"
                        THEN SetField(plain, providerConfig.auth.key, JStr(r.apiKey))
                        ELSE plain
        requestBody == IF BodyTemplateInline(providerConfig) # JUndefined
                       THEN ReplaceTemplateVarsInline(BodyTemplateInline(providerConfig),
                                                      templateVars)
                       ELSE JObj(<<Entry("prompt", JStr(r.prompt))>>)
    IN  IF r.prompt = "" \/ r.apiKey = "" \/ r.model = ""
        THEN Responded(r, 400, JObj(<<Entry("error", JStr("Missing required fields"))>>),
                       <<JStr("Missing required fields in request")>>)
        ELSE [r EXCEPT !.pc = "fetch", !.url = url, !.headers = headers,
                       !.body = requestBody,
                       !.logs = << JObj(<<Entry("url", JStr(providerConfig.endpoint)),
                                          Entry("method", JStr("POST")),
                                          Entry("headers",
                                                SetField(headers, "Authorization",
                                                         JStr(Redacted)))>>) >>]

\* The same route from the answer of the provider on.
AnswerInlineStep(r0, a) ==
    LET r == [r0 EXCEPT !.response = a] IN
    IF ~a.ok
    THEN Responded(r, a.status,
                   JObj(<<Entry("error", JStr("Provider API error")),
                          Entry("status", JNum(a.status)),
                          Entry("detail", a.data)>>),
                   <<JObj(<<Entry("status", JNum(a.status))>>)>>)
    ELSE LET result == Get(a.data, r.provider.responsePath)
         IN  IF result = JUndefined
             THEN Responded(r, 502,
                            JObj(<<Entry("error",
                                         JStr("Invalid response format from provider"))>>),
                            <<JObj(<<Entry("path", JStr(r.provider.responsePath)),
                                     Entry("response", a.data)>>)>>)
             ELSE Responded(r, 200, JObj(<<Entry("response", result)>>),
                            <<JStr("Successfully processed provider response")>>)

\* The engine, not running, beside a request to a route.
EngineIdle ==
    /\ modules = [i \in AgentIds |-> ModuleOf(i, "openai", "m")]
    /\ apiKeys = {}
    /\ store = InitialStore
    /\ calls = [c \in CallIds |-> IdleCall]
    /\ edits = 0
    /\ stops = 0
    /\ faults = 0

InitRoute ==
    /\ EngineIdle
    /\ execution = NoExecution
    /\ StorageIdle
    /\ route \in { Received(version, provider, prompt, model, apiKey) :
                      version \in {"custom", "inline"}, provider \in Providers,
                      prompt \in Prompts, model \in Models, apiKey \in ApiKeys }

\* POST /api/custom: the request is validated, built and logged
Post ==
    /\ route.pc = "received"
    /\ route.version = "custom"
    /\ route' = PostStep(route)
    /\ UNCHANGED besidesRoute

\* POST /api/custom: the provider has answered
ProviderAnswered ==
    /\ route.pc = "fetch"
    /\ route.version = "custom"
    /\ \E a \in ProviderAnswers : route' = AnswerStep(route, a)
    /\ UNCHANGED besidesRoute

\* the route with the provider configuration in the request: validated,
\* built and logged
PostInline ==
    /\ route.pc = "received"
    /\ route.version = "inline"
    /\ route' = PostInlineStep(route)
    /\ UNCHANGED besidesRoute

\* the same route: the provider has answered
ProviderAnsweredInline ==
    /\ route.pc = "fetch"
    /\ route.version = "inline"
    /\ \E a \in ProviderAnswers : route' = AnswerInlineStep(route, a)
    /\ UNCHANGED besidesRoute

NextRoute ==
    \/ Post
    \/ ProviderAnswered
    \/ PostInline
    \/ ProviderAnsweredInline

SpecRoute == InitRoute /\ [][NextRoute]_vars

\* ------------------------------------------------------- execution route
\* POST /api/workflows/[id]/execute: the stored workflow is run on the server,
\* module by module, with the keys the request carries.

\* The key executeModule takes for a built-in provider, or Null.
ExecuteKey(provider, keys) ==
    IF provider \in {"anthropic", "openai", "google"} /\ provider \in keys
    THEN provider ELSE Null

\* The error executeModule throws before its request, or Null.
ExecuteModuleError(module, keys) ==
    IF module.provider \notin {"anthropic", "openai", "google"}
    THEN "Unknown provider: " \o module.provider
    ELSE IF ExecuteKey(module.provider, keys) = Null
         THEN "API key not found for provider: " \o module.provider
         ELSE Null

\* The workflows getWorkflow may load: none, one without modules, and the
\* workflows of NumAgents modules over two known providers and an unknown one.
Workflows ==
    {[found |-> FALSE, modules |-> <<>>], [found |-> TRUE, modules |-> <<>>]}
        \cup { [found |-> TRUE,
                modules |-> [i \in AgentIds |-> ModuleOf(i, choice[i], "m")]] :
                  choice \in [AgentIds -> {"anthropic", "openai", "cohere"}] }

\* The apiKeys of the request body: missing, or the providers with a key.
KeySets ==
    {[given |-> FALSE, providers |-> {}]}
        \cup { [given |-> TRUE, providers |-> keys] :
                  keys \in SUBSET {"anthropic", "openai"} }

\* A request that reached the route.
ExecutionReceived(workflow, keys) ==
    [pc |-> "received", workflow |-> workflow, apiKeys |-> keys, i |-> 0,
     results |-> <<>>, currentInput |-> "", prompt |-> Null, requests |-> <<>>,
     status |-> 0, error |-> Null, failedAgentIndex |-> -1, answered |-> <<>>]

\* NextResponse.json(...) ends the request; answered is the results array
\* of the answer, if it has one.
ExecutionResponded(e, status, error, failedAgentIndex, answered) ==
    [e EXCEPT !.pc = "done", !.status = status, !.error = error, !.prompt = Null,
              !.failedAgentIndex = failedAgentIndex, !.answered = answered]

\* The catch block of the loop for an error thrown by executeModule, which
\* wraps what it caught.
ExecutionFailed(e, i, message) ==
    ExecutionResponded(e, 500,
        "Execution failed at module " \o ToString(i + 1)
            \o ": Module execution failed: " \o message,
        i, e.results)

\* The loop from the top of turn i to its next await of fetch, or to the
\* answer of the route.
ExecuteLoop(e, i) ==
    IF i >= Size(e.workflow.modules)
    THEN IF Len(e.results) = 0
         THEN ExecutionResponded(e, 500,
                  "Cannot read properties of undefined (reading 'timestamp')", -1, <<>>)
         ELSE ExecutionResponded(e, 200, Null, -1, e.results)
    ELSE LET module == e.workflow.modules[i]
             currentInput == IF i = 0 THEN module.prompt ELSE e.results[i].output
             turn == [e EXCEPT !.i = i, !.currentInput = currentInput]
             thrown == ExecuteModuleError(module, e.apiKeys.providers)
         IN  IF thrown # Null
             THEN ExecutionFailed(turn, i, thrown)
             ELSE [turn EXCEPT !.pc = "fetch", !.prompt = currentInput,
                               !.requests = Append(@, i)]

\* POST up to its first await of fetch.
ExecutePostStep(e) ==
    IF ~e.workflow.found
    THEN ExecutionResponded(e, 404, "Workflow not found", -1, <<>>)
    ELSE IF ~e.apiKeys.given
         THEN ExecutionResponded(e, 400, "API keys are required", -1, <<>>)
         ELSE ExecuteLoop(e, 0)

\* The continuation when the request of module e.i settles.
ExecuteAfterFetch(e, o) ==
    IF o.kind = "ok"
    THEN LET module == e.workflow.modules[e.i]
             output == Reply(module.selectedModel, e.prompt)
             result == [agentIndex |-> e.i, input |-> e.prompt, output |-> output,
                        usage |-> Usage(e.prompt, output)]
         IN  ExecuteLoop([e EXCEPT !.results = Append(@, result)], e.i + 1)
    ELSE ExecutionFailed(e, e.i, o.message)

InitExecute ==
    /\ EngineIdle
    /\ route = NoRequest
    /\ StorageIdle
    /\ execution \in { ExecutionReceived(workflow, keys) :
                          workflow \in Workflows, keys \in KeySets }

\* POST /api/workflows/[id]/execute: the request is received and run up to
\* its first request to a provider route
ExecutePost ==
    /\ execution.pc = "received"
    /\ execution' = ExecutePostStep(execution)
    /\ UNCHANGED besidesExecution

\* the request of the module in turn settles
ExecuteFetchSettles ==
    /\ execution.pc = "fetch"
    /\ \E o \in Outcomes : execution' = ExecuteAfterFetch(execution, o)
    /\ UNCHANGED besidesExecution

NextExecute ==
    \/ ExecutePost
    \/ ExecuteFetchSettles

SpecExecute == InitExecute /\ [][NextExecute]_vars

\* ------------------------------------------------- the provider library
\* lib/providers: saveProvider, listProviders, deleteProvider and
\* saveWorkflowProviders over the KV database.  Every kv request is one step,
\* taken when the database serves it; what a call does between two requests
\* touches its locals only.  The timestamps of a stored provider are left out.

MaxProviderCalls == 3
ProviderCallIds == 1 .. MaxProviderCalls

\* The provider of a module: a built-in one, or a custom one with its secret.
BuiltIn(name) == [type |-> "builtin", id |-> name, name |-> name, value |-> ""]
Custom(id, name) == [type |-> "custom", id |-> id, name |-> name, value |-> "secret"]
CustomProviders == { Custom("p1", "A"), Custom("p2", "B"), Custom("p1", "A2") }
ModuleProviders == {BuiltIn("openai")} \cup CustomProviders

\* The provider lists of the workflows saved: two modules each.
ProviderLists == { <<a, b>> : a \in ModuleProviders, b \in ModuleProviders }

\* sanitizeProvider: the provider without the value of its credential
SanitizeProvider(provider) == [id |-> provider.id, name |-> provider.name]

\* The entry of a provider in provider:list.
ListEntry(storedProvider) == [id |-> storedProvider.id, name |-> storedProvider.name]

\* listProviders: the list read, [] when the key is missing
ListProviders(db) == db.list

\* providerList.some(p => p.id === id)
Listed(providerList, id) == \E k \in DOMAIN providerList : providerList[k].id = id

\* The list saveProvider writes back from the list it read.
ListAfterSave(providerList, storedProvider) ==
    IF ~Listed(providerList, storedProvider.id)
    THEN Append(providerList, ListEntry(storedProvider))
    ELSE [k \in DOMAIN providerList |->
             IF providerList[k].id = storedProvider.id
             THEN ListEntry(storedProvider)
             ELSE providerList[k]]

\* The list deleteProvider writes back from the list it read.
ListAfterDelete(providerList, id) ==
    LET Other(p) == p.id # id IN SelectSeq(providerList, Other)

IdleProviderCall ==
    [op |-> "none", pc |-> "idle", provider |-> [id |-> "", name |-> ""],
     list |-> <<>>, batch |-> FALSE]

\* saveProvider(provider) up to its first request.
SaveProviderCall(provider, batch) ==
    [op |-> "save", pc |-> "set", provider |-> SanitizeProvider(provider),
     list |-> <<>>, batch |-> batch]

\* deleteProvider(id) up to its first request.
DeleteProviderCall(id) ==
    [op |-> "delete", pc |-> "del", provider |-> [id |-> id, name |-> ""],
     list |-> <<>>, batch |-> FALSE]

\* The invocations started so far.
Started(pcs) == { t \in ProviderCallIds : pcs.calls[t].op # "none" }

\* modules.map(m => m.provider).filter(p => ... p.type === 'custom')
CustomOf(providers) ==
    LET IsCustom(p) == p.type = "custom" IN SelectSeq(providers, IsCustom)

\* Promise.all(customProviders.map(provider => saveProvider(provider))): every
\* saveProvider runs up to its first await before the next one starts.
SaveWorkflowProvidersStep(pcs, providers) ==
    LET customProviders == CustomOf(providers)
        first == Cardinality(Started(pcs))
    IN  [pcs EXCEPT
            !.batch = IF customProviders = <<>> THEN "resolved" ELSE "pending",
            !.calls = [t \in ProviderCallIds |->
                          IF t > first /\ t <= first + Len(customProviders)
                          THEN SaveProviderCall(customProviders[t - first], TRUE)
                          ELSE pcs.calls[t]]]

\* The saveProvider calls of saveWorkflowProviders have all returned.
BatchDone(pcs) ==
    \A t \in ProviderCallIds : pcs.calls[t].batch => pcs.calls[t].pc = "done"

\* The database holds one provider, saved before.
KvWith(provider) ==
    [EmptyKv EXCEPT
        !.providers[provider.id] = [present |-> TRUE, name |-> provider.name],
        !.list = <<ListEntry(provider)>>]

InitProviders ==
    /\ EngineIdle
    /\ route = NoRequest
    /\ execution = NoExecution
    /\ workflowCalls = NoCalls
    /\ kv \in {EmptyKv, KvWith(Custom("p1", "A"))}
    /\ providerCalls = [pc |-> "open", batch |-> "none",
                        calls |-> [t \in ProviderCallIds |-> IdleProviderCall]]

besidesProviders == <<engine, route, execution, workflowCalls>>

\* saveWorkflowProviders(modules) is called
SaveWorkflowProviders ==
    /\ providerCalls.batch = "none"
    /\ \E providers \in ProviderLists :
          /\ Cardinality(Started(providerCalls)) + Len(CustomOf(providers))
                <= MaxProviderCalls
          /\ providerCalls' = SaveWorkflowProvidersStep(providerCalls, providers)
    /\ UNCHANGED <<kv, besidesProviders>>

\* saveProvider(provider) is called on its own
SaveProvider(t) ==
    /\ t = Cardinality(Started(providerCalls)) + 1
    /\ \E provider \in CustomProviders :
          providerCalls' = [providerCalls EXCEPT
                               !.calls[t] = SaveProviderCall(provider, FALSE)]
    /\ UNCHANGED <<kv, besidesProviders>>

\* deleteProvider(id) is called
DeleteProvider(t) ==
    /\ t = Cardinality(Started(providerCalls)) + 1
    /\ \E id \in ProviderIds :
          providerCalls' = [providerCalls EXCEPT !.calls[t] = DeleteProviderCall(id)]
    /\ UNCHANGED <<kv, besidesProviders>>

\* kv.set(`provider:${storedProvider.id}`, storedProvider) is served
KvSetProvider(t) ==
    /\ providerCalls.calls[t].pc = "set"
    /\ kv' = [kv EXCEPT !.providers[providerCalls.calls[t].provider.id] =
                           [present |-> TRUE, name |-> providerCalls.calls[t].provider.name]]
    /\ providerCalls' = [providerCalls EXCEPT !.calls[t].pc = "get"]
    /\ UNCHANGED besidesProviders

\* kv.del(`provider:${id}`) is served
KvDelProvider(t) ==
    /\ providerCalls.calls[t].pc = "del"
    /\ kv' = [kv EXCEPT !.providers[providerCalls.calls[t].provider.id] =
                           [present |-> FALSE, name |-> ""]]
    /\ providerCalls' = [providerCalls EXCEPT !.calls[t].pc = "get"]
    /\ UNCHANGED besidesProviders

\* kv.get('provider:list') of listProviders is served
KvGetProviderList(t) ==
    /\ providerCalls.calls[t].pc = "get"
    /\ providerCalls' = [providerCalls EXCEPT !.calls[t].pc = "setList",
                                              !.calls[t].list = ListProviders(kv)]
    /\ UNCHANGED <<kv, besidesProviders>>

\* kv.set('provider:list', ...) is served and the call returns
KvSetProviderList(t) ==
    /\ providerCalls.calls[t].pc = "setList"
    /\ kv' = [kv EXCEPT !.list =
                 IF providerCalls.calls[t].op = "save"
                 THEN ListAfterSave(providerCalls.calls[t].list, providerCalls.calls[t].provider)
                 ELSE ListAfterDelete(providerCalls.calls[t].list,
                                      providerCalls.calls[t].provider.id)]
    /\ providerCalls' = [providerCalls EXCEPT !.calls[t].pc = "done"]
    /\ UNCHANGED besidesProviders

\* the promise of saveWorkflowProviders resolves
SaveWorkflowProvidersResolves ==
    /\ providerCalls.batch = "pending"
    /\ BatchDone(providerCalls)
    /\ providerCalls' = [providerCalls EXCEPT !.batch = "resolved"]
    /\ UNCHANGED <<kv, besidesProviders>>

NextProviders ==
    \/ SaveWorkflowProviders
    \/ \E t \in ProviderCallIds : SaveProvider(t)
    \/ \E t \in ProviderCallIds : DeleteProvider(t)
    \/ \E t \in ProviderCallIds : KvSetProvider(t)
    \/ \E t \in ProviderCallIds : KvDelProvider(t)
    \/ \E t \in ProviderCallIds : KvGetProviderList(t)
    \/ \E t \in ProviderCallIds : KvSetProviderList(t)
    \/ SaveWorkflowProvidersResolves

SpecProviders == InitProviders /\ [][NextProviders]_vars

\* ------------------------------------------------- the workflow library
\* lib/workflows: saveWorkflow, listWorkflows and deleteWorkflow over the KV
\* database, with the set workflow_index.  Every kv request is one step, taken
\* when the database serves it; requests started together by Promise.all are
\* served in any order.  Of a stored workflow only its presence is kept.

MaxWorkflowCalls == 3
WorkflowCallIds == 1 .. MaxWorkflowCalls

IdleWorkflowCall ==
    [op |-> "none", pc |-> "idle", id |-> "", pending |-> {},
     ids |-> [w \in WorkflowIds |-> "none"], returned |-> {}, after |-> {}]

\* The invocations started so far.
StartedWorkflowCalls(wcs) == { t \in WorkflowCallIds : wcs.calls[t].op # "none" }

\* The id is known already: saveWorkflow gets it as existingId; a new workflow
\* gets an id from uuidv4() that nothing has used.
Known(db, wcs, id) ==
    \/ id \in db.workflows \cup db.index
    \/ \E t \in WorkflowCallIds : wcs.calls[t].op = "save" /\ wcs.calls[t].id = id

\* saveWorkflow(modules, name, description, existingId) up to its first await:
\* getWorkflow(existingId) when an id is given, else the two requests of
\* Promise.all([kv.set(key, workflow), addToIndex(workflow.id)]).
SaveWorkflowCall(id, existing) ==
    [IdleWorkflowCall EXCEPT
        !.op = "save", !.id = id,
        !.pc = IF existing THEN "created" ELSE "saving",
        !.pending = IF existing THEN {} ELSE {"set", "sadd"}]

\* deleteWorkflow(id) up to its await:
\* Promise.all([kv.del(`workflow:${id}`), removeFromIndex(id)])
DeleteWorkflowCall(id) ==
    [IdleWorkflowCall EXCEPT
        !.op = "delete", !.id = id, !.pc = "deleting", !.pending = {"del", "srem"}]

\* The workflows whose saveWorkflow has resolved, and those a deleteWorkflow
\* was issued for.
SaveResolved(wcs) ==
    { wcs.calls[t].id :
        t \in { u \in WorkflowCallIds :
                  wcs.calls[u].op = "save" /\ wcs.calls[u].pc = "done" } }

DeleteWorkflowIssued(wcs) ==
    { wcs.calls[t].id : t \in { u \in WorkflowCallIds : wcs.calls[u].op = "delete" } }

\* listWorkflows() up to its first await, getIndexedIds().  'after' notes the
\* workflows saved and not deleted when the call is made; the code has no
\* such field.
ListWorkflowsCall(wcs) ==
    [IdleWorkflowCall EXCEPT
        !.op = "list", !.pc = "smembers",
        !.after = SaveResolved(wcs) \ DeleteWorkflowIssued(wcs)]

\* One of the parallel requests of a call was served: the call goes on to
\* 'next' when none is pending.
Served(call, request, next) ==
    [call EXCEPT !.pending = @ \ {request},
                 !.pc = IF call.pending \ {request} = {} THEN next ELSE @]

\* getIndexedIds returned: a TTL check is started for every id, and with no
\* id listWorkflows returns the empty list.
AfterSmembers(call, ids) ==
    IF ids = {}
    THEN [call EXCEPT !.pc = "done", !.returned = {}]
    ELSE [call EXCEPT !.pc = "ttls",
                      !.ids = [w \in WorkflowIds |-> IF w \in ids THEN "ttl" ELSE "none"]]

\* One TTL check returned: after the last one getWorkflow(id) is started for
\* every id.
AfterTtl(call, id) ==
    LET checked == [call.ids EXCEPT ![id] = "checked"] IN
    IF \E w \in WorkflowIds : checked[w] = "ttl"
    THEN [call EXCEPT !.ids = checked]
    ELSE [call EXCEPT !.pc = "fetch",
                      !.ids = [w \in WorkflowIds |->
                                  IF checked[w] = "checked" THEN "get" ELSE "none"]]

\* One of the parallel fetches of listWorkflows has come to 'state': when all
\* have ended the list of the workflows found is returned.
AfterFetchOf(call, id, state) ==
    LET ids == [call.ids EXCEPT ![id] = state] IN
    IF \E w \in WorkflowIds : ids[w] \in {"get", "srem"}
    THEN [call EXCEPT !.ids = ids]
    ELSE [call EXCEPT !.ids = ids, !.pc = "done",
                      !.returned = { w \in WorkflowIds : ids[w] = "found" }]

\* The database holds one workflow, saved before.
KvWithWorkflow(id) == [EmptyKv EXCEPT !.workflows = {id}, !.index = {id}]

InitWorkflows ==
    /\ EngineIdle
    /\ route = NoRequest
    /\ execution = NoExecution
    /\ providerCalls = NoCalls
    /\ kv \in {EmptyKv, KvWithWorkflow("w2")}
    /\ workflowCalls = [pc |-> "open",
                        calls |-> [t \in WorkflowCallIds |-> IdleWorkflowCall]]

besidesWorkflows == <<engine, route, execution, providerCalls>>

\* saveWorkflow(modules, name, description, existingId) is called
SaveWorkflow(t) ==
    /\ t = Cardinality(StartedWorkflowCalls(workflowCalls)) + 1
    /\ \E id \in WorkflowIds :
          workflowCalls' = [workflowCalls EXCEPT
              !.calls[t] = SaveWorkflowCall(id, Known(kv, workflowCalls, id))]
    /\ UNCHANGED <<kv, besidesWorkflows>>

\* listWorkflows() is called
ListWorkflows(t) ==
    /\ t = Cardinality(StartedWorkflowCalls(workflowCalls)) + 1
    /\ workflowCalls' = [workflowCalls EXCEPT !.calls[t] = ListWorkflowsCall(workflowCalls)]
    /\ UNCHANGED <<kv, besidesWorkflows>>

\* deleteWorkflow(id) is called
DeleteWorkflow(t) ==
    /\ t = Cardinality(StartedWorkflowCalls(workflowCalls)) + 1
    /\ \E id \in WorkflowIds :
          workflowCalls' = [workflowCalls EXCEPT !.calls[t] = DeleteWorkflowCall(id)]
    /\ UNCHANGED <<kv, besidesWorkflows>>

\* saveWorkflow: getWorkflow(existingId) is served, and the two requests of
\* Promise.all are started
KvGetCreatedAt(t) ==
    /\ workflowCalls.calls[t].pc = "created"
    /\ workflowCalls' = [workflowCalls EXCEPT !.calls[t].pc = "saving",
                                              !.calls[t].pending = {"set", "sadd"}]
    /\ UNCHANGED <<kv, besidesWorkflows>>

\* saveWorkflow: kv.set(key, workflow) is served
KvSetWorkflow(t) ==
    /\ workflowCalls.calls[t].pc = "saving"
    /\ "set" \in workflowCalls.calls[t].pending
    /\ kv' = [kv EXCEPT !.workflows = @ \cup {workflowCalls.calls[t].id}]
    /\ workflowCalls' = [workflowCalls EXCEPT
                            !.calls[t] = Served(workflowCalls.calls[t], "set", "ttl")]
    /\ UNCHANGED besidesWorkflows

\* saveWorkflow: addToIndex's kv.sadd(WORKFLOW_INDEX_KEY, workflowId) is served
KvSadd(t) ==
    /\ workflowCalls.calls[t].pc = "saving"
    /\ "sadd" \in workflowCalls.calls[t].pending
    /\ kv' = [kv EXCEPT !.index = @ \cup {workflowCalls.calls[t].id}]
    /\ workflowCalls' = [workflowCalls EXCEPT
                            !.calls[t] = Served(workflowCalls.calls[t], "sadd", "ttl")]
    /\ UNCHANGED besidesWorkflows

\* saveWorkflow: checkKeyTTL(key) is served and the call returns the workflow
KvTtlSaved(t) ==
    /\ workflowCalls.calls[t].pc = "ttl"
    /\ workflowCalls' = [workflowCalls EXCEPT !.calls[t].pc = "done"]
    /\ UNCHANGED <<kv, besidesWorkflows>>

\* listWorkflows: getIndexedIds' kv.smembers(WORKFLOW_INDEX_KEY) is served
KvSmembers(t) ==
    /\ workflowCalls.calls[t].pc = "smembers"
    /\ workflowCalls' = [workflowCalls EXCEPT
                            !.calls[t] = AfterSmembers(workflowCalls.calls[t], kv.index)]
    /\ UNCHANGED <<kv, besidesWorkflows>>

\* listWorkflows: checkKeyTTL of one id is served
KvTtlListed(t, id) ==
    /\ workflowCalls.calls[t].pc = "ttls"
    /\ workflowCalls.calls[t].ids[id] = "ttl"
    /\ workflowCalls' = [workflowCalls EXCEPT
                            !.calls[t] = AfterTtl(workflowCalls.calls[t], id)]
    /\ UNCHANGED <<kv, besidesWorkflows>>

\* listWorkflows: getWorkflow(id) is served; for a missing workflow
\* removeFromIndex(id) is started
KvGetWorkflow(t, id) ==
    /\ workflowCalls.calls[t].pc = "fetch"
    /\ workflowCalls.calls[t].ids[id] = "get"
    /\ workflowCalls' = [workflowCalls EXCEPT
                            !.calls[t] = AfterFetchOf(workflowCalls.calls[t], id,
                                            IF id \in kv.workflows THEN "found" ELSE "srem")]
    /\ UNCHANGED <<kv, besidesWorkflows>>

\* listWorkflows: removeFromIndex's kv.srem for a missing workflow is served
KvSremMissing(t, id) ==
    /\ workflowCalls.calls[t].pc = "fetch"
    /\ workflowCalls.calls[t].ids[id] = "srem"
    /\ kv' = [kv EXCEPT !.index = @ \ {id}]
    /\ workflowCalls' = [workflowCalls EXCEPT
                            !.calls[t] = AfterFetchOf(workflowCalls.calls[t], id, "removed")]
    /\ UNCHANGED besidesWorkflows

\* deleteWorkflow: kv.del(`workflow:${id}`) is served
KvDelWorkflow(t) ==
    /\ workflowCalls.calls[t].pc = "deleting"
    /\ "del" \in workflowCalls.calls[t].pending
    /\ kv' = [kv EXCEPT !.workflows = @ \ {workflowCalls.calls[t].id}]
    /\ workflowCalls' = [workflowCalls EXCEPT
                            !.calls[t] = Served(workflowCalls.calls[t], "del", "done")]
    /\ UNCHANGED besidesWorkflows

\* deleteWorkflow: removeFromIndex's kv.srem is served
KvSremDeleted(t) ==
    /\ workflowCalls.calls[t].pc = "deleting"
    /\ "srem" \in workflowCalls.calls[t].pending
    /\ kv' = [kv EXCEPT !.index = @ \ {workflowCalls.calls[t].id}]
    /\ workflowCalls' = [workflowCalls EXCEPT
                            !.calls[t] = Served(workflowCalls.calls[t], "srem", "done")]
    /\ UNCHANGED besidesWorkflows

NextWorkflows ==
    \/ \E t \in WorkflowCallIds : SaveWorkflow(t)
    \/ \E t \in WorkflowCallIds : ListWorkflows(t)
    \/ \E t \in WorkflowCallIds : DeleteWorkflow(t)
    \/ \E t \in WorkflowCallIds : KvGetCreatedAt(t)
    \/ \E t \in WorkflowCallIds : KvSetWorkflow(t)
    \/ \E t \in WorkflowCallIds : KvSadd(t)
    \/ \E t \in WorkflowCallIds : KvTtlSaved(t)
    \/ \E t \in WorkflowCallIds : KvSmembers(t)
    \/ \E t \in WorkflowCallIds : \E id \in WorkflowIds : KvTtlListed(t, id)
    \/ \E t \in WorkflowCallIds : \E id \in WorkflowIds : KvGetWorkflow(t, id)
    \/ \E t \in WorkflowCallIds : \E id \in WorkflowIds : KvSremMissing(t, id)
    \/ \E t \in WorkflowCallIds : KvDelWorkflow(t)
    \/ \E t \in WorkflowCallIds : KvSremDeleted(t)

SpecWorkflows == InitWorkflows /\ [][NextWorkflows]_vars

\* ------------------------------------------------------------- properties
\* The invocations whose loop is between two turns: a request in flight or a
\* backoff sleep running.
Advancing == { c \in CallIds : calls[c].pc \in {"fetch", "sleep", "hung"} }

InFlight == { c \in CallIds : calls[c].pc \in {"fetch", "hung"} }

\* This step is the call startWorkflow(...) of invocation c.
Starts(c) == calls[c].pc = "idle" /\ calls'[c].pc # "idle"

\* This step issues a request of invocation c.
Requests(c) ==
    calls'[c].pc = "fetch" /\ (calls[c].pc # "fetch" \/ calls'[c].i # calls[c].i)

\* This step is the return of invocation c with the given outcome.
Returns(c, how) ==
    calls[c].pc # "done" /\ calls'[c].pc = "done" /\ calls'[c].outcome = how

\* A run from index 0 that no stopWorkflow interrupted and whose requests all
\* came back 2xx so far.
Uninterrupted(call) == call.startFromIndex = 0 /\ call.allOk /\ ~call.stopped

\* C1: for every interleaving of startWorkflow, stopWorkflow and completions
\* at most one adapter call is in flight and at most one startWorkflow loop
\* is advancing agents; a loop stopped while its call was in flight takes no
\* further turn beside the loop of a later startWorkflow.
C1_OneLoopAtATime ==
    /\ Cardinality(InFlight) <= 1
    /\ Cardinality(Advancing) <= 1

\* C2: a startWorkflow call made while isRunning is true returns without
\* changing any field of the store and without issuing an adapter call.
C2_RefusedWhileRunning ==
    [][\A c \in CallIds :
          (Starts(c) /\ store.isRunning) =>
              /\ store' = store
              /\ calls'[c].pc = "done"
              /\ calls'[c].outcome = "refused"
              /\ \A d \in CallIds : ~Requests(d)]_vars

C2_Witness ==
    \E c \in CallIds :
        /\ calls[c].pc = "done"
        /\ calls[c].outcome = "refused"
        /\ store.isRunning
        /\ InFlight # {}

\* The agents 0 .. i in order.
UpTo(i) == [k \in 1 .. (i + 1) |-> k - 1]

\* C3: an uninterrupted run from index 0 whose calls all succeed requests the
\* agents in index order, one request each, the request of agent k only after
\* the k earlier answers are known, and for k > 0 the prompt of agent k
\* contains the text returned for agent k-1; when it has completed it has
\* made exactly one request per agent.
C3_InOrderWithPreviousOutput ==
    \A c \in CallIds :
        Uninterrupted(calls[c]) =>
            /\ calls[c].pc = "fetch" =>
                  /\ calls[c].sent = UpTo(calls[c].i)
                  /\ calls[c].attempts = 1
                  /\ calls[c].answered = calls[c].i
                  /\ calls[c].i > 0 => Contains(calls[c].prompt, calls[c].lastReply)
            /\ (calls[c].pc = "done" /\ calls[c].outcome = "completed") =>
                  /\ calls[c].sent = UpTo(Size(calls[c].modules) - 1)
                  /\ calls[c].answered = Size(calls[c].modules)

C3_Witness ==
    \E c \in CallIds :
        /\ Uninterrupted(calls[c])
        /\ calls[c].pc = "done"
        /\ calls[c].outcome = "completed"
        /\ Len(calls[c].sent) = NumAgents
        /\ Contains(store.results[NumAgents].output, store.results[NumAgents - 1].output)

\* C4: when the request of agent k fails without a retry left, results has
\* exactly k entries, those of agents 0 .. k-1, and the failure changes none
\* of them.
C4_FailureKeepsPrefix ==
    [][\A c \in CallIds :
          (calls[c].pc = "fetch" /\ Returns(c, "failed") /\ calls'[c].i = calls[c].i) =>
              /\ store'.results = store.results
              /\ Len(store'.results) = calls'[c].i
              /\ \A k \in 1 .. Len(store'.results) :
                    store'.results[k].agentIndex = k - 1]_vars

\* What agent j returns in a single run from index 0 whose calls all succeed.
RECURSIVE IdealOutput(_, _)
IdealOutput(mods, j) ==
    Reply(mods[j].selectedModel,
          FormatPrompt(mods[j], IF j = 0 THEN Null ELSE IdealOutput(mods, j - 1)))

\* C5: a run resumed at the agent k it failed at, with the same agent list
\* and every call now succeeding, ends with the entries from k on being those
\* of a single uninterrupted run and the entries below k being those carried
\* over from the failed run.
C5_ResumeEqualsUninterrupted ==
    [][\A c \in CallIds :
          (/\ Returns(c, "completed")
           /\ calls'[c].resumes
           /\ calls'[c].allOk
           /\ ~calls'[c].stopped) =>
              LET k == calls'[c].startFromIndex
                  mods == calls'[c].modules
              IN  /\ Len(store'.results) = Size(mods)
                  /\ \A j \in k .. (Size(mods) - 1) :
                        /\ store'.results[j + 1].agentIndex = j
                        /\ store'.results[j + 1].output = IdealOutput(mods, j)
                  /\ SubSeq(store'.results, 1, k) = calls'[c].seed]_vars

\* This step is a 2xx answer to the request of invocation c.
Succeeds(c) == calls[c].pc = "fetch" /\ calls'[c].answered = calls[c].answered + 1

\* C6: an agent answered 429 exactly MAX_RETRIES times and then 2xx succeeds
\* with its (MAX_RETRIES + 1)-th request; an agent answered 429
\* MAX_RETRIES + 1 times fails with that answer, after MAX_RETRIES + 1
\* requests, and the store is in the failed state for that agent.
C6_RetryBudget ==
    [][\A c \in CallIds :
          /\ (Succeeds(c) /\ calls[c].rateLimited = MAX_RETRIES) =>
                /\ calls[c].attempts = MAX_RETRIES + 1
                /\ Len(store'.results) = Len(store.results) + 1
                /\ store'.results[Len(store'.results)].agentIndex = calls[c].i
                /\ store'.agentStatus[calls[c].modules[calls[c].i].id].isComplete
          /\ (calls[c].pc = "fetch" /\ calls'[c].rateLimited = MAX_RETRIES + 1) =>
                /\ calls[c].rateLimited = MAX_RETRIES
                /\ calls[c].attempts = MAX_RETRIES + 1
                /\ Returns(c, "failed")
                /\ calls'[c].attempts = MAX_RETRIES + 1
                /\ ~store'.isRunning
                /\ store'.failedAgentIndex = calls[c].i
                /\ store'.agentStatus[calls[c].modules[calls[c].i].id].error # Null]_vars

C6_Witness ==
    \E c \in CallIds :
        /\ calls[c].pc = "done"
        /\ calls[c].outcome = "completed"
        /\ calls[c].rateLimited = MAX_RETRIES
        /\ calls[c].attempts = MAX_RETRIES + 1
        /\ Len(store.results) = NumAgents

\* C7: when a run from index 0 that was never stopped completes with every
\* agent answered 2xx, the store has isRunning = false, one result per agent,
\* failedAgentIndex = -1 and error = null.
C7_CompletedState ==
    [][\A c \in CallIds :
          (Returns(c, "completed") /\ Uninterrupted(calls'[c])) =>
              /\ ~store'.isRunning
              /\ Len(store'.results) = Size(calls'[c].modules)
              /\ store'.failedAgentIndex = -1
              /\ store'.error = Null]_vars

\* This step is the terminal failure of the agent in turn in invocation c: its
\* error has reached the loop's catch block.
FailsTerminally(c) == Returns(c, "failed") \/ Returns(c, "rejected")

\* C8: when agent i fails terminally the run ends with isRunning = false,
\* failedAgentIndex = i and error = the agent's title, ": " and the message;
\* the run has requested no agent beyond i and requests none afterwards.
C8_FailedState ==
    [][\A c \in CallIds :
          /\ FailsTerminally(c) =>
                LET i == calls'[c].i IN
                /\ ~store'.isRunning
                /\ store'.failedAgentIndex = i
                /\ calls'[c].thrown # Null
                /\ store'.error = calls'[c].modules[i].title \o ": " \o calls'[c].thrown
                /\ calls[c].pc # "idle" => calls[c].i <= i
          /\ calls[c].pc = "done" => calls'[c].pc = "done"]_vars

C8_Witness ==
    \E c \in CallIds :
        /\ calls[c].pc = "done"
        /\ calls[c].outcome = "failed"
        /\ calls[c].i = 1
        /\ calls[c].thrown = "Invalid API key"
        /\ store.failedAgentIndex = 1
        /\ store.error = "Agent 2: Invalid API key"
        /\ ~store.isRunning

\* Does the agent lack a provider or a model?
Unconfigured(module) == Falsy(module.provider) \/ Falsy(module.selectedModel)

HasKey(module) == ~Falsy(module.provider) /\ KeyOf(module.provider) \in apiKeys

\* C10: a missing credential of any agent is found before isRunning is set
\* and before any adapter call: a startWorkflow whose list has an agent, at
\* the start index or later, without a stored API key returns at once, with
\* isRunning not set and no request issued.
C10_CredentialsCheckedFirst ==
    [][\A c \in CallIds :
          (/\ Starts(c)
           /\ \E j \in DOMAIN modules' :
                 j >= calls'[c].startFromIndex /\ ~HasKey(modules'[j])) =>
              /\ calls'[c].pc = "done"
              /\ store'.isRunning = store.isRunning
              /\ \A d \in CallIds : ~Requests(d)]_vars

\* The error stopWorkflow leaves.
StoppedMarker == "Workflow stopped by user"

\* This step is a call of stopWorkflow.
Stops == stops' = stops + 1

\* This step is the return of invocation c, however it ends.
ReturnsAnyhow(c) == calls[c].pc \in {"fetch", "sleep"} /\ calls'[c].pc = "done"

\* C11: once stopWorkflow was called and as long as no startWorkflow is
\* called, isRunning stays false and no agent beyond the one in flight is
\* requested: a step that is not a startWorkflow, taken with isRunning false,
\* leaves isRunning false and issues at most a request of the agent whose
\* call was in flight or backing off.
C11_StopHolds ==
    [][(~store.isRunning /\ \A c \in CallIds : ~Starts(c)) =>
          /\ ~store'.isRunning
          /\ \A c \in CallIds :
                Requests(c) => (calls[c].pc = "sleep" /\ calls'[c].i = calls[c].i)]_vars

C11_Witness ==
    \E c \in CallIds :
        /\ calls[c].pc = "done"
        /\ calls[c].outcome = "stopped"
        /\ calls[c].stopped
        /\ calls[c].i = 2
        /\ Len(store.results) = 2
        /\ ~store.isRunning

\* C12: when the loop of a run that stopWorkflow cancelled returns, the store
\* is in the cancelled state: isRunning is false and error is still the
\* marker stopWorkflow left, whether the call in flight succeeded or failed.
C12_MarkerSurvives ==
    [][\A c \in CallIds :
          (calls[c].stopped /\ ReturnsAnyhow(c) /\ store.error = StoppedMarker) =>
              /\ ~store'.isRunning
              /\ store'.error = StoppedMarker]_vars

\* C13: stopWorkflow leaves failedAgentIndex, results and agentStatus as they
\* were, and when the loop of the run it cancelled has returned
\* failedAgentIndex is -1.
C13_StopNamesNoAgent ==
    [][/\ Stops =>
             /\ store'.failedAgentIndex = store.failedAgentIndex
             /\ store'.results = store.results
             /\ store'.agentStatus = store.agentStatus
       /\ \A c \in CallIds :
             (calls[c].stopped /\ ReturnsAnyhow(c) /\ store.error = StoppedMarker) =>
                 store'.failedAgentIndex = -1]_vars

\* C14: a request that the provider never answers is eventually surfaced as
\* an error: an invocation whose request hangs still has a step to take (a
\* timeout that fails the attempt), so the run does not wait on it forever.
C14_HungCallFails ==
    \A c \in CallIds : calls[c].pc = "hung" => ENABLED Resumes(c)

\* C15: the promise startWorkflow returns never rejects: whatever the starts,
\* stops and adapter outcomes, an invocation ends by returning, its agent's
\* error turned into error, failedAgentIndex and agentStatus.
C15_NeverRejects ==
    \A c \in CallIds : calls[c].pc = "done" => calls[c].outcome # "rejected"


\* The text in which every token of a variable, read from left to right, has
\* given way to the value of that variable, character for character, and every
\* other character stands as it was.
RECURSIVE Substituted(_, _, _)
Substituted(text, variables, k) ==
    IF k > Len(text) THEN ""
    ELSE LET at == { n \in 1 .. Len(variables) :
                        /\ k + Len(Token(variables[n][1])) - 1 <= Len(text)
                        /\ SubSeq(text, k, k + Len(Token(variables[n][1])) - 1)
                               = Token(variables[n][1]) }
         IN  IF at = {} THEN SubSeq(text, k, k) \o Substituted(text, variables, k + 1)
             ELSE LET n == CHOOSE n \in at : TRUE
                  IN  variables[n][2]
                          \o Substituted(text, variables, k + Len(Token(variables[n][1])))

\* The template with the same containers, keys and order, its string leaves
\* substituted and its other leaves as they were.
RECURSIVE SubstitutedIn(_, _)
SubstitutedIn(template, variables) ==
    IF template.t = "string" THEN JStr(Substituted(template.v, variables, 1))
    ELSE IF template.t = "array"
         THEN JArr([n \in 1 .. Len(template.v) |-> SubstitutedIn(template.v[n], variables)])
         ELSE IF template.t = "object"
              THEN JObj([n \in 1 .. Len(template.v) |->
                            Entry(template.v[n].k, SubstitutedIn(template.v[n].x, variables))])
              ELSE template

\* C16: the body sent to the provider is the request template with the same
\* shape and keys, every {{prompt}}, {{model}} and {{api_key}} in a string leaf
\* replaced by the value of that variable, and everything else unchanged.
C16_TemplateSubstituted ==
    route.pc = "fetch" /\ route.version = "custom"
        => route.body = SubstitutedIn(BodyTemplate(route.provider),
                                      TemplateVars(route.prompt, route.model, route.apiKey))


\* a value that substitution copies as it is under either reading of it
Literal(text) == \A k \in 1 .. Len(text) : SubSeq(text, k, k) \notin {"$", "{"}

\* two JSON values with the same containers: arrays of one length, objects of
\* the same keys in the same order, item by item and entry by entry
RECURSIVE SameContainers(_, _)
SameContainers(a, b) ==
    /\ a.t = b.t
    /\ a.t \in {"array", "object"} =>
          /\ Len(a.v) = Len(b.v)
          /\ \A n \in 1 .. Len(a.v) :
                IF a.t = "array" THEN SameContainers(a.v[n], b.v[n])
                ELSE a.v[n].k = b.v[n].k /\ SameContainers(a.v[n].x, b.v[n].x)

\* C17: in the route that takes the provider configuration in the request,
\* every array of requestTemplate.body is still an array of that length and
\* order in the body sent, and {{api_key}}, like {{prompt}} and {{model}}, is
\* replaced by its value.
C17_ContainersKept ==
    /\ route.pc = "fetch"
    /\ route.version = "inline"
    /\ BodyTemplateInline(route.provider) # JUndefined
    => /\ SameContainers(BodyTemplateInline(route.provider), route.body)
       /\ Literal(route.prompt)
            => route.body = SubstitutedIn(BodyTemplateInline(route.provider),
                                TemplateVars(route.prompt, route.model, route.apiKey))


\* C18: for a 2xx JSON body the route answers with the value at responsePath;
\* when the path leads to no value it answers with the error 'Could not find
\* response at path: <path>', and never with a success whose response is null
\* or undefined.
C18_PathResolvedOrError ==
    route.pc = "done" /\ route.version = "custom" /\ route.response.ok
        => LET value == Get(route.response.data, route.provider.responsePath)
           IN  IF value \in {JNull, JUndefined}
               THEN /\ route.status = 500
                    /\ route.answer
                          = JObj(<<Entry("error",
                                     JStr("Could not find response at path: "
                                              \o route.provider.responsePath))>>)
               ELSE /\ route.status = 200
                    /\ route.answer = JObj(<<Entry("response", value)>>)


\* a JSON value with the text in one of its strings or keys
RECURSIVE Mentions(_, _)
Mentions(value, text) ==
    IF value.t = "string" THEN Contains(value.v, text)
    ELSE IF value.t = "array"
         THEN \E n \in 1 .. Len(value.v) : Mentions(value.v[n], text)
         ELSE IF value.t = "object"
              THEN \E n \in 1 .. Len(value.v) :
                      Contains(value.v[n].k, text) \/ Mentions(value.v[n].x, text)
              ELSE FALSE

\* C19: nothing the route passes to console.log or console.error during a
\* call contains the API key, whatever the auth kind of the provider and
\* wherever its template places {{api_key}}.
C19_NoCredentialLogged ==
    route.pc # "none" /\ route.version = "custom"
        => \A n \in 1 .. Len(route.logs) : ~Mentions(route.logs[n], route.apiKey)


\* C20: in the custom-provider variant of the engine a startWorkflow call made
\* while a run is active is rejected: it leaves results and agentStatus as
\* they are and starts no second loop issuing adapter calls beside the first.
C20_RefusedWhileRunningCustom ==
    [][\A c \in CallIds :
          (Starts(c) /\ store.isRunning) =>
              /\ store'.results = store.results
              /\ store'.agentStatus = store.agentStatus
              /\ calls'[c].pc = "done"
              /\ \A d \in CallIds : ~Requests(d)]_vars


\* C21: in the custom-provider variant a startWorkflow(modules, i) with i > 0
\* that resumes after a failure at agent i gives agent i the output of the
\* last result it kept, results[i-1].output, as its input.
C21_ResumeFeedsPreviousOutputCustom ==
    [][\A c \in CallIds :
          (/\ Starts(c)
           /\ calls'[c].startFromIndex > 0
           /\ calls'[c].pc = "fetch"
           /\ calls'[c].i = calls'[c].startFromIndex
           /\ Len(store'.results) = calls'[c].startFromIndex) =>
              Contains(calls'[c].prompt,
                       store'.results[calls'[c].startFromIndex].output)]_vars

\* C22: in the custom-provider variant, once stopWorkflow was called while
\* agent i was executing, the run requests no agent beyond i, and the stop
\* leaves isRunning false and error set to a marker of the cancellation.
C22_StopHoldsCustom ==
    [][/\ (Stops /\ InFlight # {}) => (~store'.isRunning /\ store'.error # Null)
       /\ \A c \in CallIds :
             (calls[c].stopped /\ calls[c].pc = "fetch") =>
                 ~(Requests(c) /\ calls'[c].i > calls[c].i)]_vars


\* C23: a run that has ended, by completing, by the terminal failure of an
\* agent or by stopWorkflow, leaves the store with isRunning false and
\* currentAgentIndex at the idle sentinel -1.
C23_TerminalHasNoCurrentIndex ==
    [][(\/ Stops
        \/ \E c \in CallIds : Returns(c, "completed") \/ Returns(c, "failed")) =>
          /\ ~store'.isRunning
          /\ store'.currentAgentIndex = -1]_vars

\* This step is an accepted startWorkflow of invocation c: neither refused
\* because a run is active nor refused by the validation.
Accepted(c) == Starts(c) /\ calls'[c].outcome \notin {"refused", "invalid"}

\* C24: every accepted startWorkflow(modules, i) with i > 0 keeps exactly the
\* i results of agents 0 .. i-1 and gives agent i the output recorded for
\* agent i-1 as its input.
C24_ResumeSeedsPrefix ==
    [][\A c \in CallIds :
          (Accepted(c) /\ calls'[c].startFromIndex > 0) =>
              LET i == calls'[c].startFromIndex
                  seed == calls'[c].seed
              IN  /\ Len(seed) = i
                  /\ \A k \in 1 .. Len(seed) : seed[k].agentIndex = k - 1
                  /\ calls'[c].previousOutput = seed[i].output
                  /\ (calls'[c].pc = "fetch" /\ calls'[c].i = i) =>
                        Contains(calls'[c].prompt, seed[i].output)]_vars

\* C25: an accepted startWorkflow(modules, 0) on a store that is not running
\* discards the earlier results: right after the start results is empty,
\* failedAgentIndex is -1 and error is null while agent 0 is being requested,
\* and agent 0 is requested without a previous output.
C25_RestartDiscardsResults ==
    [][\A c \in CallIds :
          (Accepted(c) /\ ~store.isRunning /\ calls'[c].startFromIndex = 0) =>
              /\ store'.results = <<>>
              /\ calls'[c].seed = <<>>
              /\ calls'[c].previousOutput = Null
              /\ calls'[c].pc = "fetch" =>
                    /\ calls'[c].i = 0
                    /\ store'.failedAgentIndex = -1
                    /\ store'.error = Null
                    /\ calls'[c].prompt = FormatPrompt(calls'[c].modules[0], Null)]_vars

C25_Witness ==
    /\ calls[1].pc = "done"
    /\ calls[2].pc = "fetch"
    /\ calls[2].startFromIndex = 0
    /\ calls[2].i = 0
    /\ faults = 1
    /\ stops = 0
    /\ store.results = <<>>
    /\ store.isRunning

\* C26: whatever the answers to the requests of one agent, 429 answers and
\* failures of fetch in any mix, the agent's turn makes at most
\* MAX_RETRIES + 1 requests.
C26_AtMostFourRequests ==
    \A c \in CallIds : calls[c].attempts <= MAX_RETRIES + 1

C26_Witness ==
    \E c \in CallIds :
        /\ calls[c].pc = "done"
        /\ calls[c].outcome = "failed"
        /\ calls[c].attempts = MAX_RETRIES + 1
        /\ calls[c].rateLimited = 2
        /\ calls[c].thrown = "Failed to fetch"

\* The answers executeAgent may retry: a 429 and a failure of fetch itself.
Retryable == { o \in Outcomes : o.kind = "throw" \/ o.status = 429 }

\* C27: only a 429 answer and a failure of fetch itself are retried: any
\* other non-2xx answer, whatever its error text, fails the agent at once,
\* with one request made and no backoff sleep.
C27_OnlyRetryableRetried ==
    [][\A c \in CallIds :
          (calls[c].pc = "fetch" /\ calls'[c].pc = "sleep") =>
              \E o \in Retryable : calls'[c].thrown = o.message]_vars

\* C28: results only grows during a run: a step that is not a start leaves
\* results as it was or appends one result at its end.
C28_ResultsAppendOnly ==
    [][(\A c \in CallIds : ~Starts(c)) =>
          \/ store'.results = store.results
          \/ /\ Len(store'.results) = Len(store.results) + 1
             /\ SubSeq(store'.results, 1, Len(store.results)) = store.results]_vars

C28_Witness ==
    \E c \in CallIds :
        /\ calls[c].pc = "done"
        /\ calls[c].outcome = "completed"
        /\ Len(store.results) = NumAgents
        /\ calls[c].answered = 1

\* C29: results holds the results in agent order, one per agent: the k-th
\* entry, counting from 0, is that of agent k.
C29_ResultsInAgentOrder ==
    \A k \in 1 .. Len(store.results) : store.results[k].agentIndex = k - 1

\* C30: a startWorkflow(modules, i) on a store that is not running is
\* accepted whenever every agent at index i or later has a provider and a
\* model, however the agents below i are configured.
C30_AcceptedWhenTailConfigured ==
    [][\A c \in CallIds :
          (/\ Starts(c)
           /\ ~store.isRunning
           /\ \A j \in DOMAIN modules' :
                 j >= calls'[c].startFromIndex => ~Unconfigured(modules'[j])) =>
              calls'[c].outcome \notin {"refused", "invalid"}]_vars


\* C31: the execution route runs the modules in order, sends module k > 0 a
\* prompt that combines its own prompt with the output of module k-1, and on
\* the first failing module i answers with failedAgentIndex = i and exactly
\* the i results of modules 0 .. i-1.
C31_ExecuteInOrderWithRole ==
    /\ execution.pc \in {"fetch", "done"} =>
          /\ \A k \in 1 .. Len(execution.results) :
                execution.results[k].agentIndex = k - 1
          /\ \A k \in 1 .. Len(execution.requests) : execution.requests[k] = k - 1
    /\ (execution.pc = "fetch" /\ execution.i > 0) =>
          /\ Contains(execution.prompt, execution.results[execution.i].output)
          /\ Contains(execution.prompt, execution.workflow.modules[execution.i].prompt)
    /\ (execution.pc = "done" /\ execution.failedAgentIndex >= 0) =>
          /\ Len(execution.answered) = execution.failedAgentIndex
          /\ execution.answered = execution.results


\* C32: whenever the store is not running and failedAgentIndex is i >= 0,
\* results holds exactly the i results of agents 0 .. i-1, the prefix that
\* 'retry from failed' resumes from.
C32_FailedIndexMatchesResults ==
    (~store.isRunning /\ store.failedAgentIndex >= 0) =>
        /\ Len(store.results) = store.failedAgentIndex
        /\ \A k \in 1 .. Len(store.results) : store.results[k].agentIndex = k - 1

\* The agents whose status says they are executing.
Executing == { id \in AgentIds : store.agentStatus[id].isExecuting }

\* C33: at most one agentStatus entry has isExecuting = true, and none has
\* while isRunning is false.
C33_OneExecutingWhileRunning ==
    /\ Cardinality(Executing) <= 1
    /\ ~store.isRunning => Executing = {}

\* C35: substitution is single-pass: a prompt that contains the text of a
\* token reaches the request body as it is, and the API key is in the body
\* only where the provider's template placed {{api_key}}.
C35_SinglePassSubstitution ==
    (route.pc = "fetch" /\ route.version = "custom") =>
        /\ ~Mentions(BodyTemplate(route.provider), Token("api_key")) =>
              ~Mentions(route.body, route.apiKey)
        /\ (/\ Contains(route.prompt, "{{")
            /\ Mentions(BodyTemplate(route.provider), Token("prompt"))) =>
              Mentions(route.body, route.prompt)


\* The steps a loop has left at most: agents still to run, retries still
\* allowed for the agent in turn, and the request before its sleep.
Rank(call) ==
    IF call.pc \notin {"fetch", "sleep"} THEN 0
    ELSE (Size(call.modules) - call.i) * (2 * MAX_RETRIES + 2)
            + 2 * (MAX_RETRIES - call.retryCount)
            + (IF call.pc = "fetch" THEN 1 ELSE 0)

\* This step moves the loop of invocation c (a stop only marks it).
Moves(c) == [calls'[c] EXCEPT !.stopped = calls[c].stopped] # calls[c]

\* C34: when every adapter call returns and every sleep elapses, each accepted
\* startWorkflow comes to a state where its loop has ended, so that it issues
\* no further adapter call, and isRunning is false.  A loop that has not ended
\* can always take its next step, the return of its request or the end of its
\* sleep; every step of a loop brings it nearer to its end, which it does not
\* leave again; and once no loop is left, isRunning is false.
C34_EveryRunEnds ==
    /\ [](\A c \in CallIds :
            calls[c].pc \in {"fetch", "sleep"} =>
                ENABLED (FetchSettles(c) \/ SleepElapses(c)))
    /\ [][\A c \in CallIds :
            /\ (calls[c].pc \in {"fetch", "sleep"} /\ Moves(c)) =>
                  (Rank(calls'[c]) < Rank(calls[c]) /\ Rank(calls'[c]) >= 0)
            /\ calls[c].pc = "done" => calls'[c].pc = "done"]_vars
    /\ []((\A c \in CallIds : calls[c].pc \in {"idle", "done"}) => ~store.isRunning)

\* A run that was retried after a failed request has ended and the store is
\* not running.
C34_Witness ==
    \E c \in CallIds :
        /\ calls[c].pc = "done"
        /\ calls[c].attempts > 1
        /\ ~store.isRunning


\* The providers saveWorkflowProviders saved, those no deleteProvider names.
SavedByWorkflow ==
    { providerCalls.calls[t].provider.id :
        t \in { u \in ProviderCallIds : providerCalls.calls[u].batch } }

DeleteIssued(id) ==
    \E t \in ProviderCallIds :
        providerCalls.calls[t].op = "delete" /\ providerCalls.calls[t].provider.id = id

\* Every library call made so far has returned.
ProviderCallsReturned ==
    \A t \in ProviderCallIds : providerCalls.calls[t].pc \in {"idle", "done"}

\* C36: once saveWorkflowProviders has resolved, every custom provider of the
\* workflow that no deleteProvider names is stored under provider:<id> and
\* listed in provider:list; and when all calls have returned, every provider a
\* saveProvider stored and no deleteProvider names is listed: no call's update
\* of provider:list is lost to another's.
C36_ProvidersStoredAndListed ==
    /\ providerCalls.batch = "resolved" =>
          \A id \in SavedByWorkflow :
              ~DeleteIssued(id) => (kv.providers[id].present /\ Listed(kv.list, id))
    /\ ProviderCallsReturned =>
          \A t \in ProviderCallIds :
              (providerCalls.calls[t].op = "save"
                  /\ ~DeleteIssued(providerCalls.calls[t].provider.id)) =>
              Listed(kv.list, providerCalls.calls[t].provider.id)


\* C37: a workflow whose saveWorkflow has resolved and for which no
\* deleteWorkflow was issued is in workflow_index, and every listWorkflows
\* called after the save resolved returns it, whatever listWorkflows ran
\* beside the save.
C37_SavedWorkflowListed ==
    /\ \A id \in SaveResolved(workflowCalls) \ DeleteWorkflowIssued(workflowCalls) :
          id \in kv.index
    /\ \A t \in WorkflowCallIds :
          (workflowCalls.calls[t].op = "list" /\ workflowCalls.calls[t].pc = "done") =>
              \A id \in workflowCalls.calls[t].after \ DeleteWorkflowIssued(workflowCalls) :
                  id \in workflowCalls.calls[t].returned

====
